---- MODULE Spec2Model ----
(***************************************************************************)
(* Model of the analytics subsystem of trexim_v4:                          *)
(*   app/analytics/service.py     aggregation queries (SQLAlchemy tables)  *)
(*   app/analytics/middleware.py  server-side page-view tracking           *)
(*   app/analytics/models.py      the sqlite3 store the middleware writes  *)
(*   app/api/analytics.py         the tracking and the dashboard endpoints *)
(*   app/admin/auth.py            check_auth                               *)
(*   app/database/connection.py   db_session                               *)
(* Time is counted in minutes since an arbitrary UTC midnight.             *)
(***************************************************************************)
EXTENDS Integers, Sequences, FiniteSets, TLC

VARIABLES
    utcnow,          \* the wall clock read by datetime.utcnow()
    PageView,        \* rows of the ORM table page_views (database/models.py)
    AnalyticsEvent,  \* rows of the ORM table analytics_events (database/models.py)
    FormSubmission,  \* rows of the ORM table form_submissions (database/models.py)
    page_views,      \* rows of table page_views in analytics.db (analytics/models.py)
    sessions,        \* rows of table sessions in analytics.db (analytics/models.py)
    events,          \* rows of table events in analytics.db (analytics/models.py)
    writers,         \* the position of each process inside a write to sessions
    ret              \* the last call: its arguments, clock reads and return value

vars == <<utcnow, PageView, AnalyticsEvent, FormSubmission, page_views, sessions, events,
          writers, ret>>

----------------------------------------------------------------------------
(* Bounds of the model *)

MaxRows == 3          \* rows stored over all tables where a run fills several
MaxPageViews == 3     \* rows of the ORM table page_views
MaxEvents == 4        \* rows of the ORM table analytics_events
MaxCount == 8         \* largest count the change formula is swept over
MaxStored == 2        \* rows of a table of analytics.db

(* timedelta(days=1) in minutes *)
DayMinutes == 1440

DaysArgs == {1, 2}    \* values of the `days` argument

Null == "<NULL>"      \* SQL NULL / Python None
NoCall == [op |-> "none"]

----------------------------------------------------------------------------
(* Helpers *)

RECURSIVE SumOver(_, _)
SumOver(S, f) ==
    IF S = {} THEN 0
    ELSE LET x == CHOOSE y \in S : TRUE IN f[x] + SumOver(S \ {x}, f)

(* func.date(timestamp) / strftime("%Y-%m-%d"): the calendar date, as a day number *)
DateOf(t) == t \div DayMinutes

(* round(n / d, 0) for d > 0 as Python's round() does it: to nearest, ties to even *)
RoundDiv(n, d) ==
    LET q == n \div d
        r == n - q * d
    IN  IF 2 * r < d THEN q
        ELSE IF 2 * r > d THEN q + 1
        ELSE IF q % 2 = 0 THEN q ELSE q + 1

----------------------------------------------------------------------------
(* service.py: the "count + % change" metrics.  A change is kept in tenths  *)
(* of a percent (round(x, 1) * 10).                                        *)

(* PctChange without the flat +100% for traffic that starts from nothing *)
PctChange_NoFlat100(current, previous) ==
    IF previous > 0
    THEN RoundDiv((current - previous) * 1000, previous)
    ELSE 0

PctChange(current, previous) ==
    IF previous > 0
    THEN RoundDiv((current - previous) * 1000, previous)
    ELSE IF current > 0 THEN 1000 ELSE 0

(* now1, now2: the values of the two datetime.utcnow() calls *)
get_visitors_count(days, now1, now2) ==
    LET cutoff == now1 - days * DayMinutes
        prev_cutoff == now2 - days * 2 * DayMinutes
        current == Cardinality({PageView[i].ip_hash : i \in
                       {j \in DOMAIN PageView : PageView[j].timestamp >= cutoff}})
        previous == Cardinality({PageView[i].ip_hash : i \in
                       {j \in DOMAIN PageView : /\ PageView[j].timestamp >= prev_cutoff
                                                /\ PageView[j].timestamp < cutoff}})
    IN  [op |-> "get_visitors_count", days |-> days, now1 |-> now1, now2 |-> now2,
         current |-> current, previous |-> previous,
         count |-> current, change |-> PctChange(current, previous)]

get_page_views(days, now1, now2) ==
    LET cutoff == now1 - days * DayMinutes
        prev_cutoff == now2 - days * 2 * DayMinutes
        current == Cardinality({j \in DOMAIN PageView : PageView[j].timestamp >= cutoff})
        previous == Cardinality({j \in DOMAIN PageView :
                                    /\ PageView[j].timestamp >= prev_cutoff
                                    /\ PageView[j].timestamp < cutoff})
    IN  [op |-> "get_page_views", days |-> days, now1 |-> now1, now2 |-> now2,
         current |-> current, previous |-> previous,
         count |-> current, change |-> PctChange(current, previous)]

get_cta_clicks(days, now1, now2) ==
    LET cutoff == now1 - days * DayMinutes
        prev_cutoff == now2 - days * 2 * DayMinutes
        current == Cardinality({j \in DOMAIN AnalyticsEvent :
                                    /\ AnalyticsEvent[j].timestamp >= cutoff
                                    /\ AnalyticsEvent[j].event_type = "cta_click"})
        previous == Cardinality({j \in DOMAIN AnalyticsEvent :
                                    /\ AnalyticsEvent[j].timestamp >= prev_cutoff
                                    /\ AnalyticsEvent[j].timestamp < cutoff
                                    /\ AnalyticsEvent[j].event_type = "cta_click"})
    IN  [op |-> "get_cta_clicks", days |-> days, now1 |-> now1, now2 |-> now2,
         current |-> current, previous |-> previous,
         count |-> current, change |-> PctChange(current, previous)]

----------------------------------------------------------------------------
(* service.py: get_traffic_by_day *)

(* strftime("%a") of a date; day 0 of the model's calendar is a Monday *)
DayName(date) ==
    <<"Mon", "Tue", "Wed", "Thu", "Fri", "Sat", "Sun">>[(date % 7) + 1]

(* day_names_uk: the Ukrainian abbreviations, transliterated to ASCII *)
day_names_uk ==
    [n \in {"Mon", "Tue", "Wed", "Thu", "Fri", "Sat", "Sun"} |->
        CASE n = "Mon" -> "Pn" [] n = "Tue" -> "Vt" [] n = "Wed" -> "Sr"
          [] n = "Thu" -> "Cht" [] n = "Fri" -> "Pt" [] n = "Sat" -> "Sb"
          [] n = "Sun" -> "Nd"]

(* The series starts at a wrong offset: range(days) taken as 1..days *)
SeriesDate_OffByOne(days, i, now) == DateOf(now - (days - i) * DayMinutes)

(* date_str of loop index i (0-based): the date of utcnow() - (days - 1 - i) days *)
SeriesDate(days, i, now) == DateOf(now - (days - 1 - i) * DayMinutes)

(* reads[1]: the utcnow() of the cutoff; reads[i + 2]: the utcnow() of loop index i *)
get_traffic_by_day(days, reads) ==
    LET cutoff == reads[1] - days * DayMinutes
        sel == {j \in DOMAIN PageView : PageView[j].timestamp >= cutoff}
        on(d) == {j \in sel : DateOf(PageView[j].timestamp) = d}
        data_map == [d \in {DateOf(PageView[j].timestamp) : j \in sel} |->
                        [views |-> Cardinality(on(d)),
                         visitors |-> Cardinality({PageView[j].ip_hash : j \in on(d)})]]
        date(i) == SeriesDate(days, i, reads[i + 2])
    IN  [op |-> "get_traffic_by_day", days |-> days, reads |-> reads,
         dates |-> [i \in 1..days |-> date(i - 1)],
         labels |-> [i \in 1..days |-> day_names_uk[DayName(date(i - 1))]],
         visitors |-> [i \in 1..days |->
                          IF date(i - 1) \in DOMAIN data_map
                          THEN data_map[date(i - 1)].visitors ELSE 0],
         views |-> [i \in 1..days |->
                          IF date(i - 1) \in DOMAIN data_map
                          THEN data_map[date(i - 1)].views ELSE 0]]

----------------------------------------------------------------------------
(* Strings, character by character *)

LowerAlpha == "abcdefghijklmnopqrstuvwxyz"
UpperAlpha == "ABCDEFGHIJKLMNOPQRSTUVWXYZ"

Char(s, i) == SubSeq(s, i, i)
PosIn(alpha, c) ==
    IF \E i \in 1..Len(alpha) : Char(alpha, i) = c
    THEN CHOOSE i \in 1..Len(alpha) : Char(alpha, i) = c
    ELSE 0
IsAlpha(c) == PosIn(LowerAlpha, c) > 0 \/ PosIn(UpperAlpha, c) > 0
LowerChar(c) == IF PosIn(UpperAlpha, c) > 0 THEN Char(LowerAlpha, PosIn(UpperAlpha, c)) ELSE c
UpperChar(c) == IF PosIn(LowerAlpha, c) > 0 THEN Char(UpperAlpha, PosIn(LowerAlpha, c)) ELSE c

(* str.lower() *)
RECURSIVE lower(_)
lower(s) == IF Len(s) = 0 THEN "" ELSE LowerChar(Char(s, 1)) \o lower(SubSeq(s, 2, Len(s)))

(* str.startswith(p), str.endswith(p), p in s *)
startswith(s, p) == Len(s) >= Len(p) /\ SubSeq(s, 1, Len(p)) = p
endswith(s, p) == Len(s) >= Len(p) /\ SubSeq(s, Len(s) - Len(p) + 1, Len(s)) = p
contains(s, p) == \E i \in 1..(Len(s) - Len(p) + 1) : SubSeq(s, i, i + Len(p) - 1) = p

(* str.strip("/") *)
RECURSIVE strip_slashes(_)
strip_slashes(s) ==
    IF Len(s) = 0 THEN ""
    ELSE IF Char(s, 1) = "/" THEN strip_slashes(SubSeq(s, 2, Len(s)))
    ELSE IF Char(s, Len(s)) = "/" THEN strip_slashes(SubSeq(s, 1, Len(s) - 1))
    ELSE s

(* str.title(): a letter after a non-letter in upper case, every other in lower case *)
RECURSIVE title_from(_, _)
title_from(s, after_letter) ==
    IF Len(s) = 0 THEN ""
    ELSE LET c == Char(s, 1)
         IN  (IF after_letter THEN LowerChar(c) ELSE UpperChar(c))
                 \o title_from(SubSeq(s, 2, Len(s)), IsAlpha(c))
title(s) == title_from(s, FALSE)

----------------------------------------------------------------------------
(* service.py: the categorical breakdowns and the popular pages *)

(* The rows the window filter selects: timestamp >= cutoff *)
InWindow(cutoff) == {j \in DOMAIN PageView : PageView[j].timestamp >= cutoff}

(* GROUP BY that also loses the rows whose column is NULL *)
GroupBy_DropNull(col, cutoff) ==
    LET sel == {j \in InWindow(cutoff) : PageView[j][col] # Null}
    IN  [k \in {PageView[j][col] : j \in sel} |-> {j \in sel : PageView[j][col] = k}]

(* GROUP BY col over the window: one group per value of the column, NULL included *)
GroupBy(col, cutoff) ==
    LET sel == InWindow(cutoff)
    IN  [k \in {PageView[j][col] : j \in sel} |-> {j \in sel : PageView[j][col] = k}]

(* ORDER BY that leaves the groups in no particular order *)
OrderByCountDesc_Unordered(g) ==
    {q \in [1..Cardinality(DOMAIN g) -> DOMAIN g] :
        \A i, j \in DOMAIN q : i # j => q[i] # q[j]}

(* ORDER BY count DESC: every order of the groups with the counts not increasing; *)
(* the order among groups of equal count is the database's                      *)
OrderByCountDesc(g) ==
    {q \in [1..Cardinality(DOMAIN g) -> DOMAIN g] :
        /\ \A i, j \in DOMAIN q : i # j => q[i] # q[j]
        /\ \A i \in DOMAIN q : i > 1 => Cardinality(g[q[i - 1]]) >= Cardinality(g[q[i]])}

(* percentage rounded down to one decimal *)
Percentage_Truncated(count, total) == (count * 1000) \div total

(* the share left as a fraction: round(count / total, 1) *)
Percentage_NotTimes100(count, total) == RoundDiv(count * 10, total) * 10

(* round((count / total) * 100, 1), in tenths of a percent *)
Percentage(count, total) == RoundDiv(count * 1000, total)

(* `value or fallback`: None and "" are falsy *)
OrElse(value, fallback) == IF value = Null \/ value = "" THEN fallback ELSE value

(* The body shared by get_traffic_sources, get_device_stats, get_browser_stats; *)
(* order: the order in which the query returned the groups                     *)
breakdown(op, col, fallback, days, now, order) ==
    LET g == GroupBy(col, now - days * DayMinutes)
        total == IF Len(order) > 0
                 THEN SumOver(DOMAIN order, [i \in DOMAIN order |-> Cardinality(g[order[i]])])
                 ELSE 1
    IN  [op |-> op, days |-> days, now1 |-> now, col |-> col, fallback |-> fallback,
         keys |-> order, total |-> total,
         result |-> [i \in DOMAIN order |->
                       [name |-> OrElse(order[i], fallback),
                        count |-> Cardinality(g[order[i]]),
                        percentage |-> Percentage(Cardinality(g[order[i]]), total)]]]

get_traffic_sources(days, now, order) ==
    breakdown("get_traffic_sources", "referrer", "Direct", days, now, order)

get_device_stats(days, now, order) ==
    breakdown("get_device_stats", "device", "Unknown", days, now, order)

get_browser_stats(days, now, order) ==
    breakdown("get_browser_stats", "browser", "Unknown", days, now, order)

(* page_names, the Ukrainian names transliterated to ASCII *)
page_names ==
    [p \in {"/", "/services", "/pricing", "/about", "/blog", "/contact", "/partners", "/faq"} |->
        CASE p = "/" -> "Holovna" [] p = "/services" -> "Posluhy"
          [] p = "/pricing" -> "Taryfy" [] p = "/about" -> "Pro nas"
          [] p = "/blog" -> "Bloh" [] p = "/contact" -> "Kontakty"
          [] p = "/partners" -> "Partnery" [] p = "/faq" -> "FAQ"]

page_name(path) ==
    IF path \in DOMAIN page_names THEN page_names[path]
    ELSE IF startswith(path, "/blog/") THEN "Stattia blohu"
    ELSE IF path # "/" THEN title(strip_slashes(path)) ELSE "Holovna"

(* LIMIT applied before ORDER BY takes effect: the first groups in any order *)
TopRows_AnyOrder(g, limit) ==
    {SubSeq(q, 1, IF limit < Len(q) THEN limit ELSE Len(q)) : q \in OrderByCountDesc_Unordered(g)}

(* ORDER BY count DESC LIMIT limit: the possible result rows (group keys) *)
TopRows(g, limit) ==
    {SubSeq(q, 1, IF limit < Len(q) THEN limit ELSE Len(q)) : q \in OrderByCountDesc(g)}

get_popular_pages(limit, days, now, order) ==
    LET g == GroupBy("path", now - days * DayMinutes)
    IN  [op |-> "get_popular_pages", days |-> days, limit |-> limit, now1 |-> now,
         result |-> [i \in DOMAIN order |->
                       [path |-> order[i],
                        name |-> page_name(order[i]),
                        views |-> Cardinality(g[order[i]]),
                        visitors |-> Cardinality({PageView[j].ip_hash : j \in g[order[i]]})]]]

----------------------------------------------------------------------------
(* get_avg_session_time *)

(* The engine the query is compiled for: DATABASE_URL is SQLite unless the *)
(* deployment sets a PostgreSQL URL.                                       *)
Dialects == {"postgresql", "sqlite"}

MinOf(S) == CHOOSE x \in S : \A y \in S : x <= y
MaxOf(S) == CHOOSE x \in S : \A y \in S : y <= x

(* Rows of the subquery: the in-window events that carry a session id, *)
(* grouped by it (a function from session id to row indices)           *)
SessionGroups(cutoff) ==
    LET sel == {j \in DOMAIN AnalyticsEvent :
                   /\ AnalyticsEvent[j].timestamp >= cutoff
                   /\ AnalyticsEvent[j].session_id # Null}
    IN  [s \in {AnalyticsEvent[j].session_id : j \in sel} |->
            {j \in sel : AnalyticsEvent[j].session_id = s}]

Having_AnyCount(g) == DOMAIN g

(* HAVING count > 1: sessions of a single in-window event are left out *)
Having(g) == {s \in DOMAIN g : Cardinality(g[s]) > 1}

(* avg(extract('epoch', max_ts - min_ts) / 60) over the sessions kept, as  *)
(* the value offset + num / den in minutes.                                *)
(* PostgreSQL subtracts the timestamps to an interval, whose epoch is its  *)
(* length in seconds: offset is "0" and num / den the mean length.         *)
(* SQLite stores the timestamps as text; the subtraction casts each to the *)
(* number it begins with, its year, so within one year it yields 0, and    *)
(* the extract, compiled to CAST(STRFTIME('%s', ...) AS INTEGER), reads    *)
(* that 0 as Julian day 0: every session counts -210866760000 seconds, the *)
(* mean is -3514446000 minutes whatever the events.  That number is beyond *)
(* the integers of the model, so it is carried by name in offset.          *)
AvgDuration(dialect, g, kept) ==
    IF kept = {} THEN [offset |-> "0", num |-> 0, den |-> 1]
    ELSE IF dialect = "sqlite"
         THEN [offset |-> "julian_day_0", num |-> 0, den |-> 1]
         ELSE [offset |-> "0",
               num |-> SumOver(kept, [s \in kept |->
                          MaxOf({AnalyticsEvent[j].timestamp : j \in g[s]})
                        - MinOf({AnalyticsEvent[j].timestamp : j \in g[s]})]),
               den |-> Cardinality(kept)]

(* f"{seconds:02d}" *)
TwoDigits(n) == (IF n < 10 THEN "0" ELSE "") \o ToString(n)

(* minutes = int(avg_minutes), seconds = int((avg_minutes - minutes) * 60), *)
(* f"{minutes}:{seconds:02d}".  The model keeps at most two sessions, so    *)
(* the fraction is 0 or a half and the float arithmetic is exact.           *)
FormatMinutes(avg) ==
    IF avg.offset = "julian_day_0" THEN "-3514446000:00"
    ELSE ToString(avg.num \div avg.den) \o ":"
           \o TwoDigits(((avg.num % avg.den) * 60) \div avg.den)

get_avg_session_time(days, now, dialect) ==
    LET cutoff == now - days * DayMinutes
        g      == SessionGroups(cutoff)
        avg    == AvgDuration(dialect, g, Having(g))
    IN  [op |-> "get_avg_session_time", days |-> days, now1 |-> now,
         dialect |-> dialect,
         formatted |-> FormatMinutes(avg),
         minutes |-> avg,
         change |-> 0]

----------------------------------------------------------------------------
(* middleware.py: server-side tracking of page views *)

IP_SALT == "trexim-analytics-2026"

EXCLUDED_PATHS ==
    {"/static", "/admin", "/api", "/favicon", "/robots.txt", "/sitemap", "/_"}

EXCLUDED_EXTENSIONS ==
    {".css", ".js", ".png", ".jpg", ".jpeg", ".gif", ".svg", ".ico", ".webp",
     ".woff", ".woff2"}

(* hashlib.sha256(s.encode()).hexdigest()[:16], for the strings the model *)
(* hashes: the digests are those the library computes                     *)
Sha256Hex16(s) ==
    CASE s = "203.0.113.7trexim-analytics-2026" -> "f1f99c732582dd12"
      [] s = "198.51.100.4trexim-analytics-2026" -> "ccfb2b0d1fa12f67"
      [] s = "unknown" \o "trexim-analytics-2026" -> "68d02a0917a00015"

(* The address stored as it came *)
hash_ip_Raw(ip) == ip

hash_ip(ip) == Sha256Hex16(ip \o IP_SALT)

(* The crawler keywords tested before the keywords of the devices *)
DeviceOf_BotFirst(ua_lower) ==
    IF contains(ua_lower, "bot") \/ contains(ua_lower, "crawler")
          \/ contains(ua_lower, "spider") THEN "Bot"
    ELSE IF contains(ua_lower, "mobile") THEN "Mobile"
    ELSE IF contains(ua_lower, "tablet") \/ contains(ua_lower, "ipad") THEN "Tablet"
    ELSE "Desktop"

(* "mobile" in ua or ("android" in ua and "mobile" in ua), then the elifs *)
DeviceOf(ua_lower) ==
    IF contains(ua_lower, "mobile")
          \/ (contains(ua_lower, "android") /\ contains(ua_lower, "mobile"))
    THEN "Mobile"
    ELSE IF contains(ua_lower, "tablet") \/ contains(ua_lower, "ipad") THEN "Tablet"
    ELSE IF contains(ua_lower, "bot") \/ contains(ua_lower, "crawler")
               \/ contains(ua_lower, "spider") THEN "Bot"
    ELSE "Desktop"

BrowserOf(ua_lower) ==
    IF contains(ua_lower, "firefox") THEN "Firefox"
    ELSE IF contains(ua_lower, "edg") THEN "Edge"
    ELSE IF contains(ua_lower, "chrome") THEN "Chrome"
    ELSE IF contains(ua_lower, "safari") THEN "Safari"
    ELSE IF contains(ua_lower, "opera") \/ contains(ua_lower, "opr") THEN "Opera"
    ELSE "Unknown"

OsOf(ua_lower) ==
    IF contains(ua_lower, "windows") THEN "Windows"
    ELSE IF contains(ua_lower, "mac os") \/ contains(ua_lower, "macintosh") THEN "macOS"
    ELSE IF contains(ua_lower, "linux") THEN "Linux"
    ELSE IF contains(ua_lower, "android") THEN "Android"
    ELSE IF contains(ua_lower, "iphone") \/ contains(ua_lower, "ipad") THEN "iOS"
    ELSE "Unknown"

parse_user_agent(ua) ==
    IF ua = "" THEN [browser |-> "Unknown", device |-> "Desktop", os |-> "Unknown"]
    ELSE LET ua_lower == lower(ua)
         IN  [browser |-> BrowserOf(ua_lower),
              device |-> DeviceOf(ua_lower),
              os |-> OsOf(ua_lower)]

parse_referrer(referrer) ==
    IF referrer = "" THEN "Direct"
    ELSE LET r == lower(referrer)
         IN  IF contains(r, "google") THEN "Google"
             ELSE IF contains(r, "facebook") \/ contains(r, "fb.com") THEN "Facebook"
             ELSE IF contains(r, "instagram") THEN "Instagram"
             ELSE IF contains(r, "linkedin") THEN "LinkedIn"
             ELSE IF contains(r, "telegram") \/ contains(r, "t.me") THEN "Telegram"
             ELSE IF contains(r, "twitter") \/ contains(r, "x.com") THEN "Twitter/X"
             ELSE IF contains(r, "youtube") THEN "YouTube"
             ELSE IF contains(r, "bing") THEN "Bing"
             ELSE IF contains(r, "yahoo") THEN "Yahoo"
             ELSE IF contains(r, "duckduckgo") THEN "DuckDuckGo"
             ELSE IF contains(r, "trexim") THEN "Internal"
             ELSE "Other"

(* str.strip() of blanks *)
RECURSIVE strip(_)
strip(s) ==
    IF Len(s) = 0 THEN ""
    ELSE IF Char(s, 1) = " " THEN strip(SubSeq(s, 2, Len(s)))
    ELSE IF Char(s, Len(s)) = " " THEN strip(SubSeq(s, 1, Len(s) - 1))
    ELSE s

(* s.split(",")[0] *)
FirstField(s) ==
    IF contains(s, ",")
    THEN SubSeq(s, 1, (CHOOSE i \in 1..Len(s) :
                          /\ Char(s, i) = ","
                          /\ \A k \in 1..(i - 1) : Char(s, k) # ",") - 1)
    ELSE s

(* headers.get(name, default): a header the request does not carry is Null *)
HeaderGet(value, default) == IF value = Null THEN default ELSE value

(* The address hashed: the first entry of X-Forwarded-For when the header *)
(* is there and not empty, else the peer's, else "unknown"                *)
ClientIp(request) ==
    IF HeaderGet(request.forwarded, "") # ""
    THEN strip(FirstField(request.forwarded))
    ELSE IF request.client = Null THEN "unknown" ELSE request.client

should_track_AnyMethod(request) ==
    /\ ~ \E p \in EXCLUDED_PATHS : startswith(request.path, p)
    /\ ~ \E e \in EXCLUDED_EXTENSIONS : endswith(request.path, e)

should_track(request) ==
    /\ ~ \E p \in EXCLUDED_PATHS : startswith(request.path, p)
    /\ ~ \E e \in EXCLUDED_EXTENSIONS : endswith(request.path, e)
    /\ request.method = "GET"

(* log_page_view keeps no referrer *)
log_page_view_NoReferrer(path, ip_hash, user_agent, referrer, browser, device, os) ==
    Append(page_views,
           [timestamp |-> utcnow, path |-> path, ip_hash |-> ip_hash,
            user_agent |-> user_agent, referrer |-> Null,
            browser |-> browser, device |-> device, os |-> os,
            country |-> Null])

(* models.py log_page_view: the row the INSERT adds to page_views *)
log_page_view(path, ip_hash, user_agent, referrer, browser, device, os) ==
    Append(page_views,
           [timestamp |-> utcnow, path |-> path, ip_hash |-> ip_hash,
            user_agent |-> user_agent, referrer |-> referrer,
            browser |-> browser, device |-> device, os |-> os,
            country |-> Null])

----------------------------------------------------------------------------
(* models.py: the sessions and events tables of analytics.db.  A table is *)
(* the sequence of its rows in the order of their rowid.                  *)

(* An optional integer argument is a sequence of at most one element: *)
(* <<>> is None                                                       *)
None == <<>>

(* create_session: INSERT OR REPLACE INTO sessions (id, started_at, ip_hash, *)
(* user_agent, consent_given).  A row of the same id is deleted and the new  *)
(* row inserted; the columns the statement does not name take their          *)
(* defaults: ended_at NULL, pages_visited 1.                                 *)
create_session(session_id, ip_hash, user_agent, consent) ==
    Append(SelectSeq(sessions, LAMBDA r : r.id # session_id),
           [id |-> session_id, started_at |-> utcnow, ended_at |-> Null,
            ip_hash |-> ip_hash, pages_visited |-> 1,
            consent_given |-> IF consent THEN 1 ELSE 0,
            user_agent |-> user_agent])

(* UPDATE without its WHERE clause *)
update_session_AllRows(session_id, pages_visited, ended_at) ==
    [i \in DOMAIN sessions |->
        [sessions[i] EXCEPT
            !.pages_visited = IF pages_visited # None THEN pages_visited[1] ELSE @,
            !.ended_at = IF ended_at # Null THEN ended_at ELSE @]]

(* update_session: UPDATE sessions SET <the arguments that are not None> *)
(* WHERE id = ?; no statement at all when both are None                  *)
update_session(session_id, pages_visited, ended_at) ==
    [i \in DOMAIN sessions |->
        IF sessions[i].id = session_id
        THEN [sessions[i] EXCEPT
                 !.pages_visited = IF pages_visited # None THEN pages_visited[1] ELSE @,
                 !.ended_at = IF ended_at # Null THEN ended_at ELSE @]
        ELSE sessions[i]]

(* log_event: INSERT INTO events.  The FOREIGN KEY of session_id is not *)
(* enforced: the connection never sets PRAGMA foreign_keys.             *)
log_event(event_type, event_data, session_id, path) ==
    Append(events,
           [timestamp |-> utcnow, session_id |-> session_id,
            event_type |-> event_type, event_data |-> event_data, path |-> path])

----------------------------------------------------------------------------
(* The environment: the clock, and rows arriving in the ORM tables *)

(* Values a later datetime.utcnow() of the same call may return: the clock *)
(* has not moved, or it has moved on by one unit.  The model lets it move *)
(* during a call only around midnight, which keeps the instants few.      *)
LaterReads(t) ==
    {t} \cup (IF t % DayMinutes \in {0, DayMinutes - 1} THEN {t + 1} ELSE {})

(* Time passes: the clock moves to the next of the instants S the run samples *)
Advance(S) ==
    /\ ret = NoCall
    /\ \E t \in S :
          /\ t > utcnow
          /\ \A u \in S : u > utcnow => t <= u
          /\ utcnow' = t
    /\ ret' = NoCall
    /\ UNCHANGED <<writers, FormSubmission, PageView, AnalyticsEvent, page_views, sessions, events>>

StoredRows == Len(PageView) + Len(AnalyticsEvent) + Len(page_views)

(* A row of page_views with the column default timestamp = datetime.utcnow *)
InsertPageView(path, ip_hash, referrer, browser, device) ==
    /\ ret = NoCall
    /\ Len(PageView) < MaxPageViews
    /\ PageView' = Append(PageView,
           [timestamp |-> utcnow, path |-> path, ip_hash |-> ip_hash,
            referrer |-> referrer, browser |-> browser, device |-> device])
    /\ ret' = NoCall
    /\ UNCHANGED <<writers, FormSubmission, utcnow, AnalyticsEvent, page_views, sessions, events>>

(* A row of analytics_events with the column default timestamp = datetime.utcnow *)
InsertAnalyticsEvent(session_id, event_type) ==
    /\ ret = NoCall
    /\ Len(AnalyticsEvent) < MaxEvents
    /\ AnalyticsEvent' = Append(AnalyticsEvent,
           [timestamp |-> utcnow, session_id |-> session_id, event_type |-> event_type,
            event_data |-> Null, path |-> "/"])
    /\ ret' = NoCall
    /\ UNCHANGED <<writers, FormSubmission, utcnow, PageView, page_views, sessions, events>>

----------------------------------------------------------------------------
(* Calls of the service, one at a time: a call leaves its return value in   *)
(* ret, and Respond hands it to the caller.                                 *)

Respond ==
    /\ ret # NoCall
    /\ ret' = NoCall
    /\ UNCHANGED <<writers, FormSubmission, utcnow, PageView, AnalyticsEvent, page_views, sessions, events>>

CallVisitorsCount ==
    ret = NoCall /\
    \E days \in DaysArgs : \E now2 \in LaterReads(utcnow) :
        /\ ret' = get_visitors_count(days, utcnow, now2)
        /\ utcnow' = now2
        /\ UNCHANGED <<writers, FormSubmission, PageView, AnalyticsEvent, page_views, sessions, events>>

CallPageViews ==
    ret = NoCall /\
    \E days \in DaysArgs : \E now2 \in LaterReads(utcnow) :
        /\ ret' = get_page_views(days, utcnow, now2)
        /\ utcnow' = now2
        /\ UNCHANGED <<writers, FormSubmission, PageView, AnalyticsEvent, page_views, sessions, events>>

CallCtaClicks ==
    ret = NoCall /\
    \E days \in DaysArgs : \E now2 \in LaterReads(utcnow) :
        /\ ret' = get_cta_clicks(days, utcnow, now2)
        /\ utcnow' = now2
        /\ UNCHANGED <<writers, FormSubmission, PageView, AnalyticsEvent, page_views, sessions, events>>

(* The clock moves at most once while get_traffic_by_day runs: the reads    *)
(* after the k-th see the later value.                                      *)
CallTrafficByDay ==
    ret = NoCall /\
    \E days \in DaysArgs : \E later \in LaterReads(utcnow) : \E k \in 1..(days + 1) :
        LET reads == [j \in 1..(days + 1) |-> IF j > k THEN later ELSE utcnow]
        IN  /\ ret' = get_traffic_by_day(days, reads)
            /\ utcnow' = reads[days + 1]
            /\ UNCHANGED <<writers, FormSubmission, PageView, AnalyticsEvent, page_views, sessions, events>>

CallTrafficSources ==
    ret = NoCall /\
    \E days \in DaysArgs :
      \E order \in OrderByCountDesc(GroupBy("referrer", utcnow - days * DayMinutes)) :
        /\ ret' = get_traffic_sources(days, utcnow, order)
        /\ UNCHANGED <<writers, FormSubmission, utcnow, PageView, AnalyticsEvent, page_views, sessions, events>>

CallDeviceStats ==
    ret = NoCall /\
    \E days \in DaysArgs :
      \E order \in OrderByCountDesc(GroupBy("device", utcnow - days * DayMinutes)) :
        /\ ret' = get_device_stats(days, utcnow, order)
        /\ UNCHANGED <<writers, FormSubmission, utcnow, PageView, AnalyticsEvent, page_views, sessions, events>>

CallBrowserStats ==
    ret = NoCall /\
    \E days \in DaysArgs :
      \E order \in OrderByCountDesc(GroupBy("browser", utcnow - days * DayMinutes)) :
        /\ ret' = get_browser_stats(days, utcnow, order)
        /\ UNCHANGED <<writers, FormSubmission, utcnow, PageView, AnalyticsEvent, page_views, sessions, events>>

LimitArgs == {0, 1, 2, 10}    \* values of the `limit` argument

CallPopularPages ==
    ret = NoCall /\
    \E days \in DaysArgs : \E limit \in LimitArgs :
      \E order \in TopRows(GroupBy("path", utcnow - days * DayMinutes), limit) :
        /\ ret' = get_popular_pages(limit, days, utcnow, order)
        /\ UNCHANGED <<writers, FormSubmission, utcnow, PageView, AnalyticsEvent, page_views, sessions, events>>

CallAvgSessionTime ==
    ret = NoCall /\
    \E days \in DaysArgs : \E dialect \in Dialects :
        /\ ret' = get_avg_session_time(days, utcnow, dialect)
        /\ UNCHANGED <<writers, FormSubmission, utcnow, PageView, AnalyticsEvent, page_views, sessions, events>>

(* The response of the application behind the middleware to a request *)
call_next(request, status) ==
    [status_code |-> status, body |-> "body of " \o request.method \o " " \o request.path]

(* The places of the tracking block where an exception may be raised *)
Faults == {"none", "client_ip", "parse_user_agent", "parse_referrer", "log_page_view"}

(* No try around the tracking block: its exception leaves dispatch *)
OnTrackingError_Propagate(response) == [raised |-> TRUE, response |-> Null]

(* except Exception as e: print(...), then return response *)
OnTrackingError(response) == [raised |-> FALSE, response |-> response]

(* AnalyticsMiddleware.dispatch for one request: status is the status of   *)
(* the response of the application, fault the place of the tracking block  *)
(* that raises, if any (the failing INSERT of log_page_view, say).         *)
(* outcome names the branch taken.                                         *)
dispatch(request, status, fault) ==
    /\ ret = NoCall
    /\ Len(page_views) < MaxStored
    /\ LET response == call_next(request, status)
           user_agent == HeaderGet(request.user_agent, "")
           ua_info == parse_user_agent(user_agent)
           outcome ==
               IF ~ (should_track(request) /\ status = 200) THEN "not_tracked"
               ELSE IF fault \in {"client_ip", "parse_user_agent"} THEN "error"
               ELSE IF ua_info.device = "Bot" THEN "bot"
               ELSE IF fault \in {"parse_referrer", "log_page_view"} THEN "error"
               ELSE "logged"
           left == IF outcome = "error" THEN OnTrackingError(response)
                   ELSE [raised |-> FALSE, response |-> response]
       IN  /\ page_views' =
                 IF outcome = "logged"
                 THEN log_page_view(request.path, hash_ip(ClientIp(request)),
                                    user_agent,
                                    parse_referrer(HeaderGet(request.referer, "")),
                                    ua_info.browser, ua_info.device, ua_info.os)
                 ELSE page_views
           /\ ret' = [op |-> "dispatch", request |-> request,
                      status |-> status, fault |-> fault, outcome |-> outcome,
                      raised |-> left.raised, response |-> left.response]
    /\ UNCHANGED <<writers, FormSubmission, utcnow, PageView, AnalyticsEvent, sessions, events>>

(* api/analytics.py: the public endpoints POST /event and POST /session *)

(* `if consent != "accepted"` passed only by a request without the cookie *)
no_consent_AbsentOnly(consent) == consent = Null

(* consent = request.cookies.get("analytics_consent"); consent != "accepted" *)
no_consent(consent) == consent # "accepted"

(* `not value` taken as `value is None` *)
Falsy_NoneOnly(value) == value = Null

(* `not value` of a string or None *)
Falsy(value) == value \in {Null, ""}

(* json.dumps of a string *)
json_dumps(value) == "\"" \o value \o "\""

(* The responses of the two endpoints *)
JSONResponse(outcome) ==
    CASE outcome = "skipped" ->
           [status_code |-> 200, json |-> [status |-> "skipped", reason |-> "no_consent"]]
      [] outcome = "type_required" ->
           [status_code |-> 400, json |-> [status |-> "error", message |-> "type required"]]
      [] outcome = "error" ->
           [status_code |-> 500, json |-> [status |-> "error", message |-> "str(e)"]]
      [] outcome = "ok" ->
           [status_code |-> 200, json |-> [status |-> "ok"]]

(* track_event.  body.kind is "malformed" when request.json() raises,      *)
(* "array" when it parses to something that has no get, "object" when it  *)
(* parses to a dict, whose missing keys read as None; db_ok tells whether *)
(* the INSERT of log_event goes through.                                  *)
track_event(cookie, body, db_ok) ==
    /\ ret = NoCall
    /\ Len(events) < MaxStored
    /\ LET outcome ==
               IF no_consent(cookie) THEN "skipped"
               ELSE IF body.kind # "object" THEN "error"
               ELSE IF Falsy(body.type) THEN "type_required"
               ELSE IF db_ok THEN "ok" ELSE "error"
       IN  /\ events' =
                 IF outcome = "ok"
                 THEN log_event(body.type,
                                IF Falsy(body.data) THEN Null ELSE json_dumps(body.data),
                                body.session_id, body.path)
                 ELSE events
           /\ ret' = [op |-> "track_event", cookie |-> cookie, body |-> body,
                      db_ok |-> db_ok, response |-> JSONResponse(outcome)]
    /\ UNCHANGED <<writers, FormSubmission, utcnow, PageView, AnalyticsEvent, page_views, sessions>>

(* hashlib.sha256(f"{client_ip}trexim-analytics-2026".encode()).hexdigest()[:16] *)
session_ip_hash(client_ip) == Sha256Hex16(client_ip \o "trexim-analytics-2026")

(* start_session.  session_id is the value of str(uuid.uuid4())[:8]. *)
start_session(cookie, body, request, session_id, db_ok) ==
    /\ ret = NoCall
    /\ LET outcome ==
               IF no_consent(cookie) THEN "skipped"
               ELSE IF body.kind = "malformed" THEN "error"
               ELSE IF db_ok THEN "ok" ELSE "error"
           response == JSONResponse(outcome)
       IN  /\ sessions' =
                 IF outcome = "ok"
                 THEN create_session(session_id, session_ip_hash(ClientIp(request)),
                                     HeaderGet(request.user_agent, ""), TRUE)
                 ELSE sessions
           /\ ret' = [op |-> "start_session", cookie |-> cookie, body |-> body,
                      request |-> request, db_ok |-> db_ok,
                      response |->
                         IF outcome = "ok"
                         THEN [response EXCEPT
                                  !.json = [status |-> "ok", session_id |-> session_id]]
                         ELSE response]
    /\ UNCHANGED <<writers, FormSubmission, utcnow, PageView, AnalyticsEvent, page_views, events>>

(* Calls of the functions of models.py *)
CallCreateSession(session_id, ip_hash, user_agent, consent) ==
    /\ ret = NoCall
    /\ sessions' = create_session(session_id, ip_hash, user_agent, consent)
    /\ ret' = [op |-> "create_session", session_id |-> session_id,
               ip_hash |-> ip_hash, user_agent |-> user_agent, consent |-> consent]
    /\ UNCHANGED <<writers, FormSubmission, utcnow, PageView, AnalyticsEvent, page_views, events>>

CallUpdateSession(session_id, pages_visited, ended_at) ==
    /\ ret = NoCall
    /\ sessions' = update_session(session_id, pages_visited, ended_at)
    /\ ret' = [op |-> "update_session", session_id |-> session_id,
               pages_visited |-> pages_visited, ended_at |-> ended_at,
               executed |-> (pages_visited # None \/ ended_at # Null)]
    /\ UNCHANGED <<writers, FormSubmission, utcnow, PageView, AnalyticsEvent, page_views, events>>

----------------------------------------------------------------------------
(* Writers of analytics.db in several processes.  Each call of models.py    *)
(* opens its own connection; sqlite3 begins a transaction at the INSERT or  *)
(* UPDATE, which takes the write lock of the file, and conn.commit() ends   *)
(* it.  A statement that finds the lock taken waits in the busy handler of  *)
(* the connection (sqlite3.connect, timeout 5.0 by default) and raises      *)
(* OperationalError "database is locked" when the wait runs out.            *)

Procs == {"worker1", "worker2"}

Idle == [pc |-> "idle"]

(* The process, if any, between the execute and the commit of its statement *)
LockHeldByOther(p) == \E q \in Procs \ {p} : writers[q].pc = "executed"

(* The statement of a call applied to the table as it is now; a call of *)
(* update_session with nothing to set has none                          *)
HasStatement(call) ==
    IF call.op = "create_session" THEN TRUE
    ELSE call.pages_visited # None \/ call.ended_at # Null

Effect(call) ==
    IF call.op = "create_session"
    THEN create_session(call.session_id, call.ip_hash, call.user_agent, call.consent)
    ELSE update_session(call.session_id, call.pages_visited, call.ended_at)

(* conn = get_connection(); cursor = conn.cursor() *)
Connect(p, call) ==
    /\ ret = NoCall
    /\ writers[p].pc = "idle"
    /\ writers' = [writers EXCEPT ![p] =
                      [pc |-> "connected", call |-> call, waited |-> FALSE,
                       pending |-> <<>>]]
    /\ UNCHANGED <<utcnow, PageView, AnalyticsEvent, FormSubmission, page_views, sessions,
                   events, ret>>

(* The write lock is not asked for: the statement runs on what it read *)
(* whoever else is writing                                             *)
Execute_NoLock(p) ==
    /\ writers[p].pc = "connected"
    /\ writers' = [writers EXCEPT ![p] =
                      IF HasStatement(writers[p].call)
                      THEN [writers[p] EXCEPT !.pc = "executed",
                                              !.pending = Effect(writers[p].call)]
                      ELSE [writers[p] EXCEPT !.pc = "closed"]]
    /\ UNCHANGED <<utcnow, PageView, AnalyticsEvent, FormSubmission, page_views, sessions,
                   events, ret>>

(* cursor.execute(...) with the lock free: the statement runs inside the *)
(* transaction of the connection.  Without a statement the call goes on  *)
(* to conn.close().                                                      *)
Execute(p) ==
    /\ writers[p].pc = "connected"
    /\ HasStatement(writers[p].call) => ~LockHeldByOther(p)
    /\ writers' = [writers EXCEPT ![p] =
                      IF HasStatement(writers[p].call)
                      THEN [writers[p] EXCEPT !.pc = "executed",
                                              !.pending = Effect(writers[p].call)]
                      ELSE [writers[p] EXCEPT !.pc = "closed"]]
    /\ UNCHANGED <<utcnow, PageView, AnalyticsEvent, FormSubmission, page_views, sessions,
                   events, ret>>

(* cursor.execute(...) with the lock taken: the call waits *)
Busy(p) ==
    /\ writers[p].pc = "connected"
    /\ HasStatement(writers[p].call)
    /\ LockHeldByOther(p)
    /\ ~writers[p].waited
    /\ writers' = [writers EXCEPT ![p].waited = TRUE]
    /\ UNCHANGED <<utcnow, PageView, AnalyticsEvent, FormSubmission, page_views, sessions,
                   events, ret>>

(* The wait runs out with the lock still taken: execute raises *)
BusyTimeout(p) ==
    /\ writers[p].pc = "connected"
    /\ writers[p].waited
    /\ LockHeldByOther(p)
    /\ writers' = [writers EXCEPT ![p].pc = "failed"]
    /\ UNCHANGED <<utcnow, PageView, AnalyticsEvent, FormSubmission, page_views, sessions,
                   events, ret>>

(* conn.commit(): the transaction becomes the table, the lock is released *)
Commit(p) ==
    /\ writers[p].pc = "executed"
    /\ sessions' = writers[p].pending
    /\ writers' = [writers EXCEPT ![p].pc = "closed"]
    /\ UNCHANGED <<utcnow, PageView, AnalyticsEvent, FormSubmission, page_views, events, ret>>

(* conn.close() and return, or the exception leaving the call *)
Return(p) ==
    /\ writers[p].pc \in {"closed", "failed"}
    /\ writers' = [writers EXCEPT ![p] = Idle]
    /\ UNCHANGED <<utcnow, PageView, AnalyticsEvent, FormSubmission, page_views, sessions,
                   events, ret>>

----------------------------------------------------------------------------
Init ==
    /\ utcnow = 0
    /\ PageView = <<>>
    /\ AnalyticsEvent = <<>>
    /\ FormSubmission = <<>>
    /\ page_views = <<>>
    /\ sessions = <<>>
    /\ events = <<>>
    /\ writers = [p \in Procs |-> Idle]
    /\ ret = NoCall

IpHashes == {"h1", "h2"}

(* Counts: rows of both tables arrive at midnight of day 0, 1 or 3 *)
CountInstants == {0, DayMinutes, 3 * DayMinutes}

NextCounts ==
    \/ Respond
    \/ Advance(CountInstants)
    \/ \E ip \in IpHashes :
          StoredRows < MaxRows /\ InsertPageView("/", ip, "Direct", "Chrome", "Desktop")
    \/ \E ty \in {"cta_click", "scroll"} :
          StoredRows < MaxRows /\ InsertAnalyticsEvent(Null, ty)
    \/ CallVisitorsCount
    \/ CallPageViews
    \/ CallCtaClicks

SpecCounts == Init /\ [][NextCounts]_vars

(* Daily series: page views arrive around the midnights of three days *)
SeriesInstants == {DayMinutes - 1, 2 * DayMinutes - 1}

NextSeries ==
    \/ Respond
    \/ Advance(SeriesInstants)
    \/ \E ip \in IpHashes : InsertPageView("/", ip, "Direct", "Chrome", "Desktop")
    \/ CallTrafficByDay
    \/ CallPageViews

SpecSeries == Init /\ [][NextSeries]_vars

(* Breakdowns: page views of a few kinds arrive at the midnights of three days. *)
(* <<path, ip_hash, referrer, browser, device>>; the columns the schema leaves  *)
(* nullable are NULL, empty, a category, or the literal fallback label.         *)
BreakdownRows ==
    { <<"/", "h1", Null, "Chrome", "Desktop">>,
      <<"/", "h2", "", Null, "Mobile">>,
      <<"/pricing", "h1", "Google", "", Null>>,
      <<"/team-page/", "h2", "Direct", "Unknown", "">> }

BreakdownInstants == {DayMinutes, 2 * DayMinutes}

NextBreakdown ==
    \/ Respond
    \/ Advance(BreakdownInstants)
    \/ \E r \in BreakdownRows : InsertPageView(r[1], r[2], r[3], r[4], r[5])
    \/ CallTrafficSources
    \/ CallDeviceStats
    \/ CallBrowserStats
    \/ CallPopularPages

SpecBreakdown == Init /\ [][NextBreakdown]_vars

(* Sessions: events of two sessions, and events of none, arrive minutes *)
(* apart and again a day later                                          *)
SessionIds == {"s1", "s2"}

SessionInstants == {5, 10, DayMinutes + 5}

NextSessions ==
    \/ Respond
    \/ Advance(SessionInstants)
    \/ \E s \in SessionIds \cup {Null} : InsertAnalyticsEvent(s, "scroll")
    \/ CallAvgSessionTime

SpecSessions == Init /\ [][NextSessions]_vars

(* Ingest: requests that differ from a plain page load of a browser in one *)
(* respect each, and requests for the dashboard of the administrator       *)
BaseRequest ==
    [method |-> "GET", path |-> "/", client |-> "203.0.113.7", forwarded |-> Null,
     user_agent |-> "Mozilla/5.0 (Windows) Chrome/120",
     referer |-> Null]

BotAgent == "Googlebot/2.1"

(* The crawler of a search engine that presents itself as a smartphone *)
MobileBotAgent == "Mozilla/5.0 (Android) Mobile Googlebot/2.1"

Requests ==
    {BaseRequest}
    \cup {[BaseRequest EXCEPT !.path = p] :
             p \in {"/pricing", "/admin/dashboard", "/static/css/site.css",
                    "/logo.png", "/api/analytics/track"}}
    \cup {[BaseRequest EXCEPT !.method = "POST"]}
    \cup {[BaseRequest EXCEPT !.user_agent = u] :
             u \in {Null, BotAgent, MobileBotAgent,
                    "Mozilla/5.0 (iPhone) Mobile Safari"}}
    \cup {[BaseRequest EXCEPT !.referer = "https://www.google.com/"]}
    \cup {[BaseRequest EXCEPT !.forwarded = "198.51.100.4, 10.0.0.1"]}
    \cup {[BaseRequest EXCEPT !.client = Null]}
    \cup {[BaseRequest EXCEPT !.path = "/admin/dashboard", !.method = "POST"],
          [BaseRequest EXCEPT !.path = "/admin/dashboard", !.user_agent = BotAgent]}

StatusCodes == {200, 404}

NextIngest ==
    \/ Respond
    \/ \E request \in Requests : \E status \in StatusCodes : \E fault \in Faults :
          dispatch(request, status, fault)

SpecIngest == Init /\ [][NextIngest]_vars

(* Store: two sessions are created, created again and patched, five *)
(* minutes apart                                                    *)
StoreInstants == {5}

CreateArgs == {<<"f1f99c732582dd12", "Mozilla/5.0 (Windows) Chrome/120", TRUE>>,
               <<"ccfb2b0d1fa12f67", "Mozilla/5.0 (iPhone) Mobile Safari", FALSE>>}

PagesVisitedArgs == {None, <<5>>}

EndedAtArgs == {Null, "2026-01-01T00:05:00"}

NextStore ==
    \/ Respond
    \/ Advance(StoreInstants)
    \/ \E s \in SessionIds : \E a \in CreateArgs : CallCreateSession(s, a[1], a[2], a[3])
    \/ \E s \in SessionIds : \E p \in PagesVisitedArgs : \E e \in EndedAtArgs :
          CallUpdateSession(s, p, e)

SpecStore == Init /\ [][NextStore]_vars

(* Track: posts to /event and /session with and without the consent cookie *)
Cookies == {Null, "accepted", "declined"}

EventBody(type, data, session_id) ==
    [kind |-> "object", type |-> type, data |-> data, path |-> "/pricing",
     session_id |-> session_id]

Bodies ==
    {[kind |-> "malformed"], [kind |-> "array"],
     EventBody(Null, Null, Null), EventBody("", "hero", "s1"),
     EventBody("cta_click", "hero", "s1"), EventBody("scroll", Null, Null)}

SessionRequests ==
    {BaseRequest, [BaseRequest EXCEPT !.forwarded = "198.51.100.4, 10.0.0.1"],
     [BaseRequest EXCEPT !.client = Null, !.user_agent = Null]}

NextTrack ==
    \/ Respond
    \/ \E cookie \in Cookies : \E body \in Bodies : \E db_ok \in BOOLEAN :
          track_event(cookie, body, db_ok)
    \/ \E cookie \in Cookies : \E body \in Bodies : \E request \in SessionRequests :
          \E session_id \in SessionIds : \E db_ok \in BOOLEAN :
             start_session(cookie, body, request, session_id, db_ok)

SpecTrack == Init /\ [][NextTrack]_vars

(* Privacy: page loads and session starts of the same clients, directly, *)
(* through a proxy and without a peer address                            *)
NextPrivacy ==
    \/ Respond
    \/ \E request \in SessionRequests : \E status \in StatusCodes :
          dispatch(request, status, "none")
    \/ \E cookie \in Cookies : \E request \in SessionRequests :
          \E session_id \in SessionIds :
             start_session(cookie, [kind |-> "array"], request, session_id, TRUE)

SpecPrivacy == Init /\ [][NextPrivacy]_vars

----------------------------------------------------------------------------
(* Vocabulary of the properties *)

Abs(x) == IF x < 0 THEN -x ELSE x

Forever == 1000 * DayMinutes    \* later than every instant of a run

CountOps == {"get_visitors_count", "get_page_views", "get_cta_clicks"}

InSpan(t, lo, hi) == lo <= t /\ t < hi

(* What a count metric counts among the rows with lo <= timestamp < hi *)
MetricIn(op, lo, hi) ==
    LET pv == SelectSeq(PageView, LAMBDA r : InSpan(r.timestamp, lo, hi))
        ev == SelectSeq(AnalyticsEvent,
                  LAMBDA r : InSpan(r.timestamp, lo, hi) /\ r.event_type = "cta_click")
    IN  CASE op = "get_visitors_count" ->
                 Cardinality({pv[i].ip_hash : i \in DOMAIN pv})
          [] op = "get_page_views" -> Len(pv)
          [] op = "get_cta_clicks" -> Len(ev)

(* x (in tenths) is num / den * 100 rounded to one decimal, den > 0 *)
IsPercentRounded(x, num, den) == 2 * Abs(x * den - 1000 * num) <= den

ChangeRule(change, current, previous) ==
    /\ previous > 0 => IsPercentRounded(change, current - previous, previous)
    /\ (previous = 0 /\ current > 0) => change = 1000
    /\ (previous = 0 /\ current = 0) => change = 0

(* C1: each count metric returns count = current, where current is what the  *)
(* metric counts (distinct ip_hash of PageView, rows of PageView, cta_click  *)
(* rows of AnalyticsEvent) from the cutoff on, and change obeys: rounded      *)
(* (current - previous) / previous * 100 when previous > 0, 100 when previous *)
(* = 0 < current, 0 when both are 0; the rule holds for all counts up to      *)
(* MaxCount (evaluated in the states between calls).                          *)
C1_CountAndChange ==
    /\ ret.op \in CountOps =>
         /\ ret.count = ret.current
         /\ ret.current = MetricIn(ret.op, ret.now1 - ret.days * DayMinutes, Forever)
         /\ ChangeRule(ret.change, ret.current, ret.previous)
    /\ ret = NoCall =>
         \A c \in 0..MaxCount : \A p \in 0..MaxCount :
            ChangeRule(PctChange(c, p), c, p)

C1_Witness ==
    /\ ret.op = "get_cta_clicks"
    /\ ret.previous = 2
    /\ ret.current = 1
    /\ ret.change = -500

(* C2: with W = days and one instant now, current counts the rows with       *)
(* timestamp >= now - W and previous the rows with now - 2W <= timestamp <   *)
(* now - W.                                                                   *)
C2_PrecedingWindowOfEqualLength ==
    ret.op \in CountOps =>
        LET W == ret.days * DayMinutes
            now == ret.now1
        IN  /\ ret.current = MetricIn(ret.op, now - W, Forever)
            /\ ret.previous = MetricIn(ret.op, now - 2 * W, now - W)

RowsOnDate(d) == SelectSeq(PageView, LAMBDA r : DateOf(r.timestamp) = d)

Sum(seq) == SumOver(DOMAIN seq, seq)

(* C3: get_traffic_by_day(days) returns exactly `days` labels, visitors and  *)
(* views; index i (0-based) describes the date today - (days - 1 - i), for   *)
(* today the date of the call, with the views and distinct visitors of that  *)
(* date, 0 for a date with no row.                                           *)
C3_OneEntryPerDayOldestFirst ==
    ret.op = "get_traffic_by_day" =>
        /\ Len(ret.labels) = ret.days
        /\ Len(ret.visitors) = ret.days
        /\ Len(ret.views) = ret.days
        /\ \E today \in {DateOf(ret.reads[j]) : j \in DOMAIN ret.reads} :
             \A i \in 0..(ret.days - 1) :
                LET d == today - (ret.days - 1 - i)
                    rows == RowsOnDate(d)
                IN  /\ ret.dates[i + 1] = d
                    /\ ret.labels[i + 1] = day_names_uk[DayName(d)]
                    /\ ret.views[i + 1] = Len(rows)
                    /\ ret.visitors[i + 1] =
                          Cardinality({rows[j].ip_hash : j \in DOMAIN rows})

(* C3, the case that does hold: when every utcnow() of the call falls on    *)
(* one date, the series is as C3 says.                                       *)
C3_HoldsWithinOneDate ==
    (ret.op = "get_traffic_by_day"
       /\ \A j \in DOMAIN ret.reads : DateOf(ret.reads[j]) = DateOf(ret.reads[1]))
    => C3_OneEntryPerDayOldestFirst

(* C4: the views of the daily series sum to the number of PageView rows the *)
(* window filter selects (timestamp >= now - days); stated for the calls    *)
(* during which the clock stands still, so that `now` is one instant.       *)
C4_SeriesCoversWindow ==
    (ret.op = "get_traffic_by_day" /\ \A j \in DOMAIN ret.reads : ret.reads[j] = ret.reads[1]) =>
        Sum(ret.views) = MetricIn("get_page_views",
                                  ret.reads[1] - ret.days * DayMinutes, Forever)

BreakdownOps == {"get_traffic_sources", "get_device_stats", "get_browser_stats"}

(* The PageView rows of the window of the call in ret *)
WindowRows == SelectSeq(PageView, LAMBDA r : r.timestamp >= ret.now1 - ret.days * DayMinutes)

RowsWith(col, value) == SelectSeq(WindowRows, LAMBDA r : r[col] = value)

IsDescending(seq) == \A i \in DOMAIN seq : i > 1 => seq[i - 1] >= seq[i]

(* C5: a breakdown returns one entry per group of in-window rows (per value *)
(* of its column), with count the rows of the group, percentage =            *)
(* round(count / rows in the window * 100, 1), ordered by count descending.  *)
C5_BreakdownEntries ==
    ret.op \in BreakdownOps =>
        /\ Len(ret.result) = Cardinality({WindowRows[j][ret.col] : j \in DOMAIN WindowRows})
        /\ {ret.keys[i] : i \in DOMAIN ret.keys} =
               {WindowRows[j][ret.col] : j \in DOMAIN WindowRows}
        /\ Len(ret.keys) = Len(ret.result)
        /\ \A i \in DOMAIN ret.result :
              /\ ret.result[i].count = Len(RowsWith(ret.col, ret.keys[i]))
              /\ IsPercentRounded(ret.result[i].percentage,
                                  ret.result[i].count, Len(WindowRows))
        /\ IsDescending([i \in DOMAIN ret.result |-> ret.result[i].count])

C5_Witness ==
    /\ ret.op = "get_traffic_sources"
    /\ Len(ret.result) = 2
    /\ ret.result[1].count = 2 /\ ret.result[1].percentage = 667
    /\ ret.result[2].count = 1 /\ ret.result[2].percentage = 333

(* C6: for a non-empty window the percentages of a breakdown sum to 100     *)
(* within 0.05 per returned category and each lies in [0, 100]; for an      *)
(* empty window the breakdown is empty and the divisor is not zero.         *)
C6_PercentagesSumTo100 ==
    ret.op \in BreakdownOps =>
        /\ ret.total >= 1
        /\ Len(WindowRows) = 0 => ret.result = <<>>
        /\ Len(WindowRows) > 0 =>
              /\ 2 * Abs(Sum([i \in DOMAIN ret.result |-> ret.result[i].percentage]) - 1000)
                    <= Len(ret.result)
              /\ \A i \in DOMAIN ret.result :
                    ret.result[i].percentage >= 0 /\ ret.result[i].percentage <= 1000

C6_Witness ==
    /\ ret.op = "get_device_stats"
    /\ Len(ret.result) = 3
    /\ Sum([i \in DOMAIN ret.result |-> ret.result[i].percentage]) = 999

(* C7: in-window rows whose category column is NULL or empty are kept: they *)
(* appear under the fallback name with their row count, and the counts of   *)
(* the entries sum to the number of PageView rows in the window.            *)
C7_NullAndEmptyUnderFallback ==
    ret.op \in BreakdownOps =>
        /\ Sum([i \in DOMAIN ret.result |-> ret.result[i].count]) = Len(WindowRows)
        /\ \A k \in {Null, ""} :
              Len(RowsWith(ret.col, k)) > 0 =>
                 \E i \in DOMAIN ret.result :
                    /\ ret.keys[i] = k
                    /\ ret.result[i].name = ret.fallback
                    /\ ret.result[i].count = Len(RowsWith(ret.col, k))
        /\ ret.fallback = (IF ret.op = "get_traffic_sources" THEN "Direct" ELSE "Unknown")

C7_Witness ==
    /\ ret.op = "get_browser_stats"
    /\ \E i, j \in DOMAIN ret.result :
          /\ ret.keys[i] = Null /\ ret.result[i].name = "Unknown"
          /\ ret.keys[j] = "" /\ ret.result[j].name = "Unknown"

Min(a, b) == IF a < b THEN a ELSE b

(* C8: get_popular_pages(limit, days) returns at most `limit` entries, one  *)
(* per distinct path of the in-window rows, with views the in-window rows   *)
(* of the path and visitors their distinct ip_hash, ordered by views        *)
(* descending; no path left out has more views than a returned one.         *)
C8_PopularPages ==
    ret.op = "get_popular_pages" =>
        LET paths == {WindowRows[j].path : j \in DOMAIN WindowRows}
            got == {ret.result[i].path : i \in DOMAIN ret.result}
            rows(p) == RowsWith("path", p)
        IN  /\ Len(ret.result) <= ret.limit
            /\ Len(ret.result) = Min(ret.limit, Cardinality(paths))
            /\ got \subseteq paths
            /\ Cardinality(got) = Len(ret.result)
            /\ \A i \in DOMAIN ret.result :
                  /\ ret.result[i].views = Len(rows(ret.result[i].path))
                  /\ ret.result[i].visitors =
                        Cardinality({rows(ret.result[i].path)[j].ip_hash :
                                        j \in DOMAIN rows(ret.result[i].path)})
            /\ IsDescending([i \in DOMAIN ret.result |-> ret.result[i].views])
            /\ \A p \in paths \ got : \A i \in DOMAIN ret.result :
                  Len(rows(p)) <= ret.result[i].views

C8_Witness ==
    /\ ret.op = "get_popular_pages"
    /\ ret.limit = 1
    /\ Len(ret.result) = 1
    /\ ret.result[1].views = 2
    /\ ret.result[1].visitors = 1
    /\ \E j \in DOMAIN WindowRows : WindowRows[j].path # ret.result[1].path

(* The events of session s inside the window of the call in ret, in the *)
(* order they were stored, which is the order of their timestamps       *)
SessionEvents(s) ==
    SelectSeq(AnalyticsEvent,
              LAMBDA e : /\ e.session_id = s
                         /\ e.timestamp >= ret.now1 - ret.days * DayMinutes)

QualifyingSessions == {s \in SessionIds : Len(SessionEvents(s)) > 1}

(* Latest minus earliest in-window timestamp of session s, in minutes *)
SessionLength(s) ==
    SessionEvents(s)[Len(SessionEvents(s))].timestamp - SessionEvents(s)[1].timestamp

AvgSessionTimeRule ==
    LET q == QualifyingSessions
    IN  /\ ret.change = 0
        /\ q = {} =>
              /\ ret.minutes = [offset |-> "0", num |-> 0, den |-> 1]
              /\ ret.formatted = "0:00"
        /\ q # {} =>
              /\ ret.minutes.offset = "0"
              /\ ret.minutes.num * Cardinality(q)
                   = ret.minutes.den * SumOver(q, [s \in q |-> SessionLength(s)])
        /\ \A s \in q :
              (q = {s} /\ Len(SessionEvents(s)) = 2 /\ SessionLength(s) = 5) =>
                  /\ ret.minutes.offset = "0"
                  /\ ret.minutes.num = 5 * ret.minutes.den
                  /\ ret.formatted = "5:00"

(* C9: get_avg_session_time(days) takes the sessions with more than one     *)
(* in-window event of non-null session id and returns as minutes the mean   *)
(* over them of latest minus earliest in-window timestamp: one session with *)
(* two events five minutes apart gives minutes 5 and formatted "5:00"; with *)
(* no such session minutes is 0 and formatted "0:00"; change is always 0.   *)
C9_AvgSessionTime ==
    ret.op = "get_avg_session_time" => AvgSessionTimeRule

(* The same rule holds of every call answered by PostgreSQL *)
C9_HoldsOnPostgreSQL ==
    (ret.op = "get_avg_session_time" /\ ret.dialect = "postgresql") => AvgSessionTimeRule

(* What a request and its response must be for a page view to be recorded *)
Qualifies(request, status) ==
    /\ request.method = "GET"
    /\ status = 200
    /\ \A p \in EXCLUDED_PATHS : ~ startswith(request.path, p)
    /\ \A e \in EXCLUDED_EXTENSIONS : ~ endswith(request.path, e)
    /\ parse_user_agent(HeaderGet(request.user_agent, "")).device # "Bot"

(* C10: AnalyticsMiddleware.dispatch records a page view only when the     *)
(* method is GET, the response status is 200, the path starts with none of *)
(* the excluded prefixes and ends with none of the static-asset            *)
(* extensions, and the detected device class is not "Bot": every step that *)
(* changes page_views is such a dispatch adding one row for the path of    *)
(* its request.  No row is ever recorded for path /admin/dashboard.        *)
C10_RecordsOnlyQualifying ==
    /\ [](\A i \in DOMAIN page_views : page_views[i].path # "/admin/dashboard")
    /\ [][page_views' # page_views =>
             /\ ret'.op = "dispatch"
             /\ Qualifies(ret'.request, ret'.status)
             /\ Len(page_views') = Len(page_views) + 1
             /\ SubSeq(page_views', 1, Len(page_views)) = page_views
             /\ page_views'[Len(page_views')].path = ret'.request.path]_vars

(* A page load is recorded after requests for the dashboard, by a robot, *)
(* by POST and with status 404 were not                                  *)
C10_Witness ==
    /\ ret.op = "dispatch"
    /\ ret.outcome = "logged"
    /\ Len(page_views) = 1
    /\ page_views[1].path = ret.request.path
    /\ page_views[1].device = "Desktop"

(* C11: a page view is never recorded when the User-Agent of the request *)
(* contains "bot" in any case, whatever other device keywords ("mobile", *)
(* "tablet", "ipad") it contains as well: no stored row has such a       *)
(* User-Agent.                                                           *)
C11_NoBotRecorded ==
    \A i \in DOMAIN page_views : ~ contains(lower(page_views[i].user_agent), "bot")

(* The same holds of the User-Agents that carry no keyword of a handheld *)
C11_HoldsWithoutMobileKeyword ==
    \A i \in DOMAIN page_views :
        contains(lower(page_views[i].user_agent), "bot") =>
            contains(lower(page_views[i].user_agent), "mobile")

(* C12: every qualifying request (GET, status 200, path and extension not *)
(* excluded, device not Bot) whose write goes through adds exactly one    *)
(* row, carrying the path of the request, the hash of the client address, *)
(* the category of the referrer and the browser, device and os of the     *)
(* User-Agent; any other request adds none.  page_views starts empty, so  *)
(* its length is the number of such requests handled so far.              *)
C12_OneRowPerQualifyingRequest ==
    [][ret'.op = "dispatch" =>
          LET request == ret'.request
              ua == parse_user_agent(HeaderGet(request.user_agent, ""))
          IN  IF Qualifies(request, ret'.status) /\ ret'.fault = "none"
              THEN /\ Len(page_views') = Len(page_views) + 1
                   /\ SubSeq(page_views', 1, Len(page_views)) = page_views
                   /\ LET row == page_views'[Len(page_views')]
                      IN  /\ row.path = request.path
                          /\ row.ip_hash = hash_ip(ClientIp(request))
                          /\ row.referrer = parse_referrer(HeaderGet(request.referer, ""))
                          /\ row.browser = ua.browser
                          /\ row.device = ua.device
                          /\ row.os = ua.os
              ELSE page_views' = page_views]_vars

(* A second row, of a request that came through a proxy from a search *)
(* engine's result page or not, is stored with the hash of the first  *)
(* forwarded address                                                  *)
C12_Witness ==
    /\ ret.op = "dispatch"
    /\ ret.outcome = "logged"
    /\ ret.request.forwarded = "198.51.100.4, 10.0.0.1"
    /\ Len(page_views) = 2
    /\ page_views[1].referrer = "Google"
    /\ page_views[2].ip_hash = "ccfb2b0d1fa12f67"
    /\ page_views[2].referrer = "Direct"
    /\ page_views[2].browser = "Chrome"
    /\ page_views[2].os = "Windows"

(* The rows of session id in a table of sessions *)
RowsOf(table, id) == SelectSeq(table, LAMBDA r : r.id = id)

(* C13: create_session for a session id that already exists leaves the *)
(* pages_visited of that session unchanged and sets consent_given to   *)
(* the value of the latest call; pages_visited of a session changes    *)
(* only through update_session, never through a repeated               *)
(* create_session.                                                     *)
C13_CreateKeepsPagesVisited ==
    [][/\ \A id \in SessionIds :
             (RowsOf(sessions, id) # <<>> /\ RowsOf(sessions', id) # <<>>
                /\ RowsOf(sessions', id)[1].pages_visited
                      # RowsOf(sessions, id)[1].pages_visited)
             => ret'.op = "update_session"
       /\ (ret'.op = "create_session" /\ RowsOf(sessions, ret'.session_id) # <<>>) =>
             /\ RowsOf(sessions', ret'.session_id) # <<>>
             /\ RowsOf(sessions', ret'.session_id)[1].consent_given
                   = (IF ret'.consent THEN 1 ELSE 0)]_vars

(* consent_given is that of the latest create_session, whatever came before *)
C13_ConsentOfLatestCall ==
    [][ret'.op = "create_session" =>
          /\ Len(RowsOf(sessions', ret'.session_id)) = 1
          /\ RowsOf(sessions', ret'.session_id)[1].consent_given
                = (IF ret'.consent THEN 1 ELSE 0)]_vars

(* At most one row per session id *)
OneRowPerSessionId ==
    \A id \in SessionIds : Len(RowsOf(sessions, id)) <= 1

(* C14: create_session is an idempotent upsert keyed by session id: for an *)
(* absent id it inserts a row with started_at = now and pages_visited = 1; *)
(* for a present id it updates only ip_hash, user_agent and consent_given  *)
(* in place, so the started_at and ended_at of the row are preserved, and  *)
(* a second call with the same arguments changes nothing.  There is at     *)
(* most one row per session id.                                            *)
C14_IdempotentUpsert ==
    [][ret'.op = "create_session" =>
          LET id == ret'.session_id
              old == RowsOf(sessions, id)
              new == RowsOf(sessions', id)
          IN  /\ Len(new) = 1
              /\ \A other \in SessionIds \ {id} :
                    RowsOf(sessions', other) = RowsOf(sessions, other)
              /\ new[1].ip_hash = ret'.ip_hash
              /\ new[1].user_agent = ret'.user_agent
              /\ new[1].consent_given = (IF ret'.consent THEN 1 ELSE 0)
              /\ IF old = <<>>
                 THEN /\ new[1].started_at = utcnow
                      /\ new[1].pages_visited = 1
                 ELSE /\ new[1].started_at = old[1].started_at
                      /\ new[1].ended_at = old[1].ended_at
                      /\ (/\ old[1].ip_hash = ret'.ip_hash
                          /\ old[1].user_agent = ret'.user_agent
                          /\ old[1].consent_given = (IF ret'.consent THEN 1 ELSE 0))
                         => new[1] = old[1]]_vars

(* What holds of every create_session: one row of the id afterwards, with *)
(* the arguments of the call, the rows of the other ids untouched; a row  *)
(* for an absent id starts now with pages_visited 1                       *)
C14_HoldsForAbsentId ==
    [][ret'.op = "create_session" =>
          LET id == ret'.session_id
              new == RowsOf(sessions', id)
          IN  /\ Len(new) = 1
              /\ \A other \in SessionIds \ {id} :
                    RowsOf(sessions', other) = RowsOf(sessions, other)
              /\ new[1].ip_hash = ret'.ip_hash
              /\ new[1].user_agent = ret'.user_agent
              /\ new[1].consent_given = (IF ret'.consent THEN 1 ELSE 0)
              /\ RowsOf(sessions, id) = <<>> =>
                    (new[1].started_at = utcnow /\ new[1].pages_visited = 1)]_vars

(* C15: update_session(session_id, pages_visited, ended_at) patches only  *)
(* the fields given, of only the session of that id: a field passed as    *)
(* None keeps its stored value, started_at, ip_hash, consent_given and    *)
(* user_agent are unchanged, every other row is unchanged, a call with    *)
(* both fields None performs no write, a call for an absent id creates no *)
(* row.                                                                   *)
C15_UpdatePatchesGivenFields ==
    [][ret'.op = "update_session" =>
          /\ Len(sessions') = Len(sessions)
          /\ \A i \in DOMAIN sessions :
                IF sessions[i].id # ret'.session_id
                THEN sessions'[i] = sessions[i]
                ELSE /\ sessions'[i].id = sessions[i].id
                     /\ sessions'[i].started_at = sessions[i].started_at
                     /\ sessions'[i].ip_hash = sessions[i].ip_hash
                     /\ sessions'[i].consent_given = sessions[i].consent_given
                     /\ sessions'[i].user_agent = sessions[i].user_agent
                     /\ sessions'[i].pages_visited =
                           (IF ret'.pages_visited = None
                            THEN sessions[i].pages_visited
                            ELSE ret'.pages_visited[1])
                     /\ sessions'[i].ended_at =
                           (IF ret'.ended_at = Null
                            THEN sessions[i].ended_at
                            ELSE ret'.ended_at)
          /\ (ret'.pages_visited = None /\ ret'.ended_at = Null) =>
                (~ ret'.executed /\ sessions' = sessions)
          /\ RowsOf(sessions, ret'.session_id) = <<>> => sessions' = sessions]_vars

(* A second patch of s1 gives only ended_at: the pages_visited of the  *)
(* first patch stays, and the row of s2 is as it was created           *)
C15_Witness ==
    /\ ret.op = "update_session"
    /\ ret.session_id = "s1"
    /\ ret.pages_visited = None
    /\ ret.ended_at # Null
    /\ Len(sessions) = 2
    /\ RowsOf(sessions, "s1")[1].pages_visited = 5
    /\ RowsOf(sessions, "s1")[1].ended_at = ret.ended_at
    /\ RowsOf(sessions, "s2")[1].pages_visited = 1
    /\ RowsOf(sessions, "s2")[1].ended_at = Null

Skipped == [status_code |-> 200, json |-> [status |-> "skipped", reason |-> "no_consent"]]

(* C16: POST /event and POST /session with the analytics_consent cookie *)
(* absent or of any value other than "accepted" return status "skipped" *)
(* with reason "no_consent" and write nothing: the events and sessions  *)
(* tables are unchanged, for every body, malformed or without type      *)
(* included.                                                            *)
C16_NoConsentNoWrite ==
    [][(ret'.op \in {"track_event", "start_session"} /\ ret'.cookie # "accepted") =>
          /\ ret'.response = Skipped
          /\ events' = events
          /\ sessions' = sessions]_vars

(* A post without consent is skipped after posts with consent filled both *)
(* tables                                                                 *)
C16_Witness ==
    /\ ret.op = "track_event"
    /\ ret.cookie = "declined"
    /\ ret.body.kind = "object"
    /\ ret.body.type = "cta_click"
    /\ ret.response = Skipped
    /\ Len(events) = 1
    /\ Len(sessions) = 1

(* An event body that is a JSON object without type: missing, null or empty *)
WithoutType(body) == body.kind = "object" /\ body.type \in {Null, ""}

TypeRequired ==
    [status_code |-> 400, json |-> [status |-> "error", message |-> "type required"]]

(* C17 as stated: posting an event without type (missing, null or empty) *)
(* returns a validation error (400) and stores no row.                   *)
C17_NoTypeIsRejected ==
    [][(ret'.op = "track_event" /\ WithoutType(ret'.body)) =>
          /\ ret'.response.status_code = 400
          /\ events' = events]_vars

(* C17: posting, with the consent cookie "accepted", an event whose body *)
(* is a JSON object without type (missing, null or empty) returns the    *)
(* validation error 400 "type required" and stores no row; without the   *)
(* cookie the same post is skipped, and stores no row either.            *)
C17_NoTypeIsRejectedUnderConsent ==
    [][(ret'.op = "track_event" /\ WithoutType(ret'.body)) =>
          /\ ret'.response = (IF ret'.cookie = "accepted" THEN TypeRequired ELSE Skipped)
          /\ events' = events]_vars

(* A post with consent and an empty type is rejected after an event was stored *)
C17_Witness ==
    /\ ret.op = "track_event"
    /\ ret.cookie = "accepted"
    /\ ret.body.kind = "object"
    /\ ret.body.type = ""
    /\ ret.db_ok
    /\ ret.response = TypeRequired
    /\ Len(events) = 1

(* C18: every stored event whose session_id is not null references a   *)
(* stored session that was created under consent; POST /event never    *)
(* stores an event whose session_id names no stored session.           *)
C18_EventsReferenceSessions ==
    \A i \in DOMAIN events :
        events[i].session_id # Null =>
            \E j \in DOMAIN sessions :
                /\ sessions[j].id = events[i].session_id
                /\ sessions[j].consent_given = 1

(* Every stored event was posted under consent, and every session of this *)
(* endpoint was created under consent                                     *)
C18_HoldsOfConsent ==
    /\ \A j \in DOMAIN sessions : sessions[j].consent_given = 1
    /\ [][events' # events =>
             (ret'.op = "track_event" /\ ret'.cookie = "accepted")]_vars

(* The addresses requests come from or name in X-Forwarded-For *)
RawAddresses == {"203.0.113.7", "198.51.100.4", "10.0.0.1", "unknown"}

(* A stored digest that is no address and no part of one *)
NoPartOfAnAddress(digest) ==
    /\ digest # ""
    /\ \A ip \in RawAddresses : digest # ip /\ ~ contains(ip, digest)

(* A stored text that has no address inside *)
FreeOfAddresses(text) ==
    \A ip \in RawAddresses : ~ contains(text, ip)

(* C19: the raw client IP is never persisted.  The ip_hash of every      *)
(* stored page view and session row is the salted hash of the resolved   *)
(* client IP (the first X-Forwarded-For entry when the header is there,  *)
(* else the peer address), the same for the same IP in both endpoints,   *)
(* and never the raw IP or a substring of it; no other stored column is  *)
(* written from the resolved IP.                                         *)
C19_RawIpNeverPersisted ==
    /\ [](/\ \A i \in DOMAIN page_views :
                /\ NoPartOfAnAddress(page_views[i].ip_hash)
                /\ \A c \in {"ip_hash", "path", "user_agent", "referrer", "browser",
                              "device", "os", "country"} :
                      FreeOfAddresses(page_views[i][c])
          /\ \A i \in DOMAIN sessions :
                /\ NoPartOfAnAddress(sessions[i].ip_hash)
                /\ \A c \in {"ip_hash", "id", "user_agent", "ended_at"} :
                      FreeOfAddresses(sessions[i][c]))
    /\ [][(page_views' # page_views =>
              page_views'[Len(page_views')].ip_hash = hash_ip(ClientIp(ret'.request)))
           /\
           (sessions' # sessions =>
              sessions'[Len(sessions')].ip_hash = hash_ip(ClientIp(ret'.request)))]_vars

(* The same client, through the same proxy, loaded a page and started a *)
(* session: both rows carry the same digest; a page view of a client    *)
(* without proxy carries another                                        *)
C19_Witness ==
    /\ ret.op = "start_session"
    /\ ret.request.forwarded = "198.51.100.4, 10.0.0.1"
    /\ Len(sessions) = 1
    /\ sessions[1].ip_hash = "ccfb2b0d1fa12f67"
    /\ Len(page_views) = 2
    /\ page_views[1].ip_hash = "ccfb2b0d1fa12f67"
    /\ page_views[2].ip_hash = "f1f99c732582dd12"

(* C20: a failure while recording a page view never breaks the page    *)
(* response: whatever exception the resolution of the address, the     *)
(* parsing of the User-Agent or of the referrer, or log_page_view      *)
(* raises, dispatch returns to the client exactly the response of      *)
(* call_next, status and body, and raises nothing.                     *)
C20_TrackingNeverBreaksResponse ==
    ret.op = "dispatch" =>
        /\ ~ ret.raised
        /\ ret.response = call_next(ret.request, ret.status)
        /\ ret.response.status_code = ret.status

(* The INSERT failed for a page load that was to be recorded: the page *)
(* is served, nothing is stored                                        *)
C20_Witness ==
    /\ ret.op = "dispatch"
    /\ ret.fault = "log_page_view"
    /\ ret.outcome = "error"
    /\ ~ ret.raised
    /\ ret.response = [status_code |-> 200, body |-> "body of GET /pricing"]
    /\ page_views = <<>>

----------------------------------------------------------------------------
(* A post with consent that reaches the write of log_event or of *)
(* create_session, and the write fails                           *)
StorageFailure(call) ==
    /\ call.op \in {"track_event", "start_session"}
    /\ call.cookie = "accepted"
    /\ ~call.db_ok
    /\ IF call.op = "track_event"
       THEN call.body.kind = "object" /\ call.body.type \notin {Null, ""}
       ELSE call.body.kind # "malformed"

(* C21: a storage failure during the write of an event or of a session   *)
(* (log_event or create_session raising inside POST /event or POST       *)
(* /session with consent) is caught and the response still succeeds from *)
(* the caller's point of view: it does not report a server error.        *)
C21_StorageFailureStillSucceeds ==
    [][StorageFailure(ret') => ret'.response.status_code < 500]_vars

(* What the except clause of both endpoints does give: the exception does *)
(* not escape, the answer is a JSON body of status "error", and nothing   *)
(* is written                                                             *)
C21_FailureIsAnswered ==
    [][StorageFailure(ret') =>
          /\ ret'.response.json.status = "error"
          /\ events' = events
          /\ sessions' = sessions]_vars

----------------------------------------------------------------------------
(* service.py: get_recent_events, get_form_submissions, get_dashboard_summary *)

(* datetime.isoformat(): the date and the time of day, apart *)
isoformat(t) == <<DateOf(t), (t % DayMinutes) \div 60, t % 60>>

(* ORDER BY timestamp DESC over the rows sel of a table: every order with *)
(* the timestamps not increasing; the order among rows of one timestamp   *)
(* is the database's                                                      *)
OrderByTimestampDesc(table, sel) ==
    {q \in [1..Cardinality(sel) -> sel] :
        /\ \A i, j \in DOMAIN q : i # j => q[i] # q[j]
        /\ \A i \in DOMAIN q : i > 1 => table[q[i - 1]].timestamp >= table[q[i]].timestamp}

(* .limit(limit) *)
Limit(q, limit) == SubSeq(q, 1, IF limit < Len(q) THEN limit ELSE Len(q))

(* rows: the rows (by position in the table) the query returned, in order *)
get_recent_events(limit, rows) ==
    [op |-> "get_recent_events", limit |-> limit,
     result |-> [i \in DOMAIN rows |->
                   [timestamp |-> isoformat(AnalyticsEvent[rows[i]].timestamp),
                    type |-> AnalyticsEvent[rows[i]].event_type,
                    data |-> AnalyticsEvent[rows[i]].event_data,
                    path |-> AnalyticsEvent[rows[i]].path]]]

get_form_submissions(days, limit, now, rows) ==
    [op |-> "get_form_submissions", days |-> days, limit |-> limit, now1 |-> now,
     result |-> [i \in DOMAIN rows |->
                   [timestamp |-> isoformat(FormSubmission[rows[i]].timestamp),
                    form_type |-> FormSubmission[rows[i]].form_type,
                    company |-> FormSubmission[rows[i]].company,
                    request_type |-> FormSubmission[rows[i]].request_type]]]

(* The rows the query of get_form_submissions may return *)
FormRows(days, limit, now) ==
    {Limit(q, limit) :
        q \in OrderByTimestampDesc(FormSubmission,
                 {j \in DOMAIN FormSubmission :
                     FormSubmission[j].timestamp >= now - days * DayMinutes})}

(* The rows the query of get_recent_events may return *)
EventRows(limit) ==
    {Limit(q, limit) : q \in OrderByTimestampDesc(AnalyticsEvent, DOMAIN AnalyticsEvent)}

(* The values a call of a function of the service may return when it starts *)
(* at instant c and its queries go through, each with the instant of its    *)
(* last datetime.utcnow().  args: [days, limit, dialect].                   *)
Returns(fn, args, c) ==
    LET cutoff == c - args.days * DayMinutes
        counts(f(_, _, _)) ==
            {[value |-> f(args.days, c, n), clock |-> n] : n \in LaterReads(c)}
        stats(f(_, _, _), col) ==
            {[value |-> f(args.days, c, o), clock |-> c] :
                o \in OrderByCountDesc(GroupBy(col, cutoff))}
    IN  CASE fn = "get_visitors_count" -> counts(get_visitors_count)
          [] fn = "get_page_views" -> counts(get_page_views)
          [] fn = "get_cta_clicks" -> counts(get_cta_clicks)
          [] fn = "get_avg_session_time" ->
               {[value |-> get_avg_session_time(args.days, c, args.dialect), clock |-> c]}
          [] fn = "get_traffic_by_day" ->
               {[value |-> get_traffic_by_day(args.days,
                              [j \in 1..(args.days + 1) |-> IF j > k THEN n ELSE c]),
                 clock |-> IF k <= args.days THEN n ELSE c] :
                   n \in LaterReads(c), k \in 1..(args.days + 1)}
          [] fn = "get_traffic_sources" -> stats(get_traffic_sources, "referrer")
          [] fn = "get_device_stats" -> stats(get_device_stats, "device")
          [] fn = "get_browser_stats" -> stats(get_browser_stats, "browser")
          [] fn = "get_popular_pages" ->
               {[value |-> get_popular_pages(args.limit, args.days, c, o), clock |-> c] :
                   o \in TopRows(GroupBy("path", cutoff), args.limit)}
          [] fn = "get_recent_events" ->
               {[value |-> get_recent_events(args.limit, o), clock |-> c] :
                   o \in EventRows(args.limit)}
          [] fn = "get_form_submissions" ->
               {[value |-> get_form_submissions(args.days, args.limit, c, o), clock |-> c] :
                   o \in FormRows(args.days, args.limit, c)}

(* A failed read answered with a value instead of the exception *)
db_session_Swallow(ok, outcome) ==
    [raised |-> FALSE, value |-> IF ok THEN outcome.value ELSE [count |-> 0, change |-> 0],
     clock |-> outcome.clock]

(* connection.py db_session around the queries of one function: ok tells   *)
(* whether session.execute goes through.  except Exception: rollback, raise *)
db_session(ok, outcome) ==
    IF ok
    THEN [raised |-> FALSE, value |-> outcome.value, clock |-> outcome.clock]
    ELSE [raised |-> TRUE, clock |-> outcome.clock]

(* One call of a function of the service *)
Call(fn, args, c, ok) == {db_session(ok, r) : r \in Returns(fn, args, c)}

(* get_dashboard_summary(days): the calls of the dict display, in the order *)
(* Python evaluates them                                                    *)
SummaryCalls(days, dialect) ==
    LET a(d, l) == [days |-> d, limit |-> l, dialect |-> dialect]
    IN  << [field |-> "visitors", fn |-> "get_visitors_count", args |-> a(days, 0)],
           [field |-> "page_views", fn |-> "get_page_views", args |-> a(days, 0)],
           [field |-> "avg_time", fn |-> "get_avg_session_time", args |-> a(days, 0)],
           [field |-> "cta_clicks", fn |-> "get_cta_clicks", args |-> a(days, 0)],
           [field |-> "traffic_by_day", fn |-> "get_traffic_by_day", args |-> a(days, 0)],
           [field |-> "sources", fn |-> "get_traffic_sources", args |-> a(days, 0)],
           [field |-> "popular_pages", fn |-> "get_popular_pages", args |-> a(days, 5)],
           [field |-> "devices", fn |-> "get_device_stats", args |-> a(days, 0)],
           [field |-> "browsers", fn |-> "get_browser_stats", args |-> a(days, 0)],
           [field |-> "recent_events", fn |-> "get_recent_events", args |-> a(0, 5)],
           [field |-> "form_submissions", fn |-> "get_form_submissions",
            args |-> a(30, 5)] >>

(* The calls from the k-th on, started at instant c; fault is the position *)
(* of the call whose read fails, 0 when none does.  An exception ends the  *)
(* evaluation: the values computed so far are dropped.                     *)
RECURSIVE FanOut(_, _, _, _)
FanOut(calls, k, c, fault) ==
    IF k > Len(calls)
    THEN {[raised |-> FALSE, values |-> <<>>, queries |-> <<>>, clock |-> c]}
    ELSE UNION {
           IF o.raised
           THEN {[raised |-> TRUE, queries |-> <<calls[k].fn>>, clock |-> o.clock]}
           ELSE {IF rest.raised
                 THEN [rest EXCEPT !.queries = <<calls[k].fn>> \o @]
                 ELSE [rest EXCEPT !.queries = <<calls[k].fn>> \o @,
                                   !.values = <<o.value>> \o @] :
                    rest \in FanOut(calls, k + 1, o.clock, fault)} :
           o \in Call(calls[k].fn, calls[k].args, c, fault # k)}

get_dashboard_summary(days, dialect, c, fault) ==
    LET calls == SummaryCalls(days, dialect)
    IN  {IF r.raised THEN r
         ELSE [raised |-> FALSE, queries |-> r.queries, clock |-> r.clock,
               value |-> [f \in {calls[i].field : i \in DOMAIN calls} |->
                            r.values[CHOOSE i \in DOMAIN calls : calls[i].field = f]]] :
            r \in FanOut(calls, 1, c, fault)}

----------------------------------------------------------------------------
(* admin/auth.py and the protected endpoints of api/analytics.py *)

(* Values of Python kept in request.session *)
PyNone == [t |-> "NoneType"]
PyBool(b) == [t |-> "bool", v |-> b]
PyStr(s) == [t |-> "str", v |-> s]

(* bool(value) *)
Truthy(value) ==
    CASE value.t = "NoneType" -> FALSE
      [] value.t = "bool" -> value.v
      [] value.t = "str" -> value.v # ""

(* dict.get(key) *)
dict_get(d, key) == IF key \in DOMAIN d THEN d[key] ELSE PyNone

(* The key of the session is enough, whatever its value *)
check_auth_KeyPresent(session) ==
    IF "authenticated" \notin DOMAIN session
    THEN [raised |-> TRUE, status_code |-> 401, detail |-> "Not authenticated"]
    ELSE [raised |-> FALSE]

(* check_auth: raise HTTPException(401) unless session["authenticated"] is truthy *)
check_auth(session) ==
    IF ~Truthy(dict_get(session, "authenticated"))
    THEN [raised |-> TRUE, status_code |-> 401, detail |-> "Not authenticated"]
    ELSE [raised |-> FALSE]

(* The function behind each GET endpoint of the router *)
Endpoints ==
    [e \in {"/summary", "/visitors", "/views", "/traffic", "/sources", "/pages",
            "/devices", "/browsers", "/events", "/forms"} |->
        CASE e = "/summary" -> "get_dashboard_summary"
          [] e = "/visitors" -> "get_visitors_count"
          [] e = "/views" -> "get_page_views"
          [] e = "/traffic" -> "get_traffic_by_day"
          [] e = "/sources" -> "get_traffic_sources"
          [] e = "/pages" -> "get_popular_pages"
          [] e = "/devices" -> "get_device_stats"
          [] e = "/browsers" -> "get_browser_stats"
          [] e = "/events" -> "get_recent_events"
          [] e = "/forms" -> "get_form_submissions"]

(* The body of an endpoint once the dependency has passed *)
Serve(endpoint, args, c, fault) ==
    IF endpoint = "/summary"
    THEN get_dashboard_summary(args.days, args.dialect, c, fault)
    ELSE {IF o.raised
          THEN [raised |-> TRUE, queries |-> <<Endpoints[endpoint]>>, clock |-> o.clock]
          ELSE [raised |-> FALSE, queries |-> <<Endpoints[endpoint]>>, clock |-> o.clock,
                value |-> o.value] :
             o \in Call(Endpoints[endpoint], args, c, fault = 0)}

(* The answer to a GET of an endpoint of the dashboard, and the clock.      *)
(* Depends(check_auth) runs first: its HTTPException is answered by the    *)
(* handler of main.py with the status and the detail; an exception of the  *)
(* service is answered 500.                                                *)
Answer(endpoint, session, args, fault) ==
    LET auth == check_auth(session)
        call == [op |-> "admin_get", endpoint |-> endpoint, session |-> session,
                 args |-> args, fault |-> fault, now1 |-> utcnow]
    IN  IF auth.raised
        THEN /\ ret' = [status_code |-> auth.status_code, content |-> auth.detail,
                        queries |-> <<>>] @@ call
             /\ utcnow' = utcnow
        ELSE \E o \in Serve(endpoint, args, utcnow, fault) :
                /\ ret' = IF o.raised
                          THEN [status_code |-> 500, queries |-> o.queries] @@ call
                          ELSE [status_code |-> 200, queries |-> o.queries,
                                result |-> o.value] @@ call
                /\ utcnow' = o.clock

(* An endpoint that counts its own request as a page view *)
admin_get_Counted(endpoint, session, args, fault) ==
    /\ ret = NoCall
    /\ Answer(endpoint, session, args, fault)
    /\ PageView' = Append(PageView,
           [timestamp |-> utcnow, path |-> "/api/analytics" \o endpoint, ip_hash |-> "h1",
            referrer |-> Null, browser |-> "Chrome", device |-> "Desktop"])
    /\ UNCHANGED <<writers, AnalyticsEvent, FormSubmission, page_views, sessions, events>>

(* GET of an endpoint of the dashboard: nothing is written *)
admin_get(endpoint, session, args, fault) ==
    /\ ret = NoCall
    /\ Answer(endpoint, session, args, fault)
    /\ UNCHANGED <<writers, PageView, AnalyticsEvent, FormSubmission, page_views, sessions, events>>

(* A row of form_submissions with the column default timestamp = datetime.utcnow *)
InsertFormSubmission(form_type, company, request_type) ==
    /\ ret = NoCall
    /\ FormSubmission' = Append(FormSubmission,
           [timestamp |-> utcnow, form_type |-> form_type, company |-> company,
            request_type |-> request_type])
    /\ ret' = NoCall
    /\ UNCHANGED <<writers, utcnow, PageView, AnalyticsEvent, page_views, sessions, events>>

(* Dashboard: the administrator, and visitors without the flag, read the *)
(* endpoints while a few rows arrive at a midnight and three days on; a  *)
(* read of the database may fail                                         *)
AdminInstants == {3 * DayMinutes + 5}

Sessions ==
    {<<>>, [authenticated |-> PyBool(FALSE)], [authenticated |-> PyStr("")],
     [authenticated |-> PyBool(TRUE)]}

(* The calls of the summary whose read fails in a run: none, the first, *)
(* one in the middle, the last                                         *)
SummaryFaults == {0, 1, 6, 11}

(* The query parameters and the failing read, per endpoint *)
EndpointArgs(endpoint) ==
    IF endpoint = "/summary"
    THEN {<<[days |-> d, limit |-> 0, dialect |-> x], f>> :
             d \in DaysArgs, x \in Dialects, f \in SummaryFaults}
    ELSE {<<[days |-> IF endpoint = "/events" THEN 0 ELSE d,
             limit |-> IF endpoint \in {"/pages", "/events", "/forms"} THEN 1 ELSE 0,
             dialect |-> "sqlite"], f>> :
             d \in DaysArgs, f \in 0..1}

AdminStored == Len(PageView) + Len(AnalyticsEvent) + Len(FormSubmission)

NextAdmin ==
    \/ Respond
    \/ Advance(AdminInstants)
    \/ \E r \in {<<"/", "h1", "Google">>, <<"/pricing", "h2", Null>>} :
          AdminStored < MaxStored /\ InsertPageView(r[1], r[2], r[3], "Chrome", "Desktop")
    \/ AdminStored < MaxStored /\ InsertAnalyticsEvent("s1", "cta_click")
    \/ AdminStored < MaxStored /\ InsertFormSubmission("contact", "Acme", "demo")
    \/ \E endpoint \in DOMAIN Endpoints : \E session \in Sessions :
         \E a \in EndpointArgs(endpoint) : admin_get(endpoint, session, a[1], a[2])

SpecAdmin == Init /\ [][NextAdmin]_vars

----------------------------------------------------------------------------
(* C22: a storage read failure inside an aggregation function propagates *)
(* as an error to the administrator who called: the endpoint answers a   *)
(* server error and carries no result at all, neither default zeros nor  *)
(* the part of the summary computed before the failure.                  *)
C22_ReadFailurePropagates ==
    [][(ret'.op = "admin_get" /\ ret'.queries # <<>> /\ ret'.fault # 0) =>
          /\ ret'.status_code = 500
          /\ "result" \notin DOMAIN ret'
          /\ Len(ret'.queries) = IF ret'.endpoint = "/summary" THEN ret'.fault ELSE 1]_vars

(* The sixth call of the summary fails over a table that has rows: five *)
(* values were computed and none is returned                            *)
C22_Witness ==
    /\ ret.op = "admin_get"
    /\ ret.endpoint = "/summary"
    /\ ret.fault = 6
    /\ ret.status_code = 500
    /\ Len(ret.queries) = 6
    /\ Len(PageView) > 0
    /\ "result" \notin DOMAIN ret

(* A session without a truthy 'authenticated' flag: no key, or a value that *)
(* Python takes for false                                                   *)
Flagless(session) ==
    \/ "authenticated" \notin DOMAIN session
    \/ session.authenticated \in {PyNone, PyBool(FALSE), PyStr("")}

(* C23: every read endpoint of the dashboard (/summary, /visitors, /views, *)
(* /traffic, /sources, /pages, /devices, /browsers, /events, /forms)       *)
(* requires an authenticated administrator: a request whose session has no *)
(* truthy 'authenticated' flag is rejected with 401 and no aggregation     *)
(* query is executed.                                                      *)
C23_ReadsRequireAdmin ==
    [][(ret'.op = "admin_get" /\ Flagless(ret'.session)) =>
          /\ ret'.status_code = 401
          /\ ret'.queries = <<>>
          /\ "result" \notin DOMAIN ret'
          /\ utcnow' = utcnow]_vars

(* The summary is refused to a session whose flag is False, over tables *)
(* that have rows                                                       *)
C23_Witness ==
    /\ ret.op = "admin_get"
    /\ ret.endpoint = "/summary"
    /\ ret.session = [authenticated |-> PyBool(FALSE)]
    /\ ret.status_code = 401
    /\ ret.queries = <<>>
    /\ Len(PageView) > 0
    /\ Len(FormSubmission) > 0

(* The key an entry of a list result is ordered by *)
SortKey(e) ==
    IF "views" \in DOMAIN e THEN <<e.views>>
    ELSE IF "count" \in DOMAIN e THEN <<e.count>>
    ELSE e.timestamp

(* Two return values of one function that differ at most in the entries the *)
(* database was free to order either way: those of equal count, views or   *)
(* timestamp                                                               *)
SameUpToTies(a, b) ==
    IF a.op \in {"get_traffic_sources", "get_device_stats", "get_browser_stats",
                 "get_popular_pages", "get_recent_events", "get_form_submissions"}
    THEN /\ Len(a.result) = Len(b.result)
         /\ \A i \in DOMAIN a.result : SortKey(a.result[i]) = SortKey(b.result[i])
    ELSE a = b

(* What the function returns, without the record of the rows the database *)
(* handed over                                                            *)
Returned(v) == IF "keys" \in DOMAIN v THEN [v EXCEPT !.keys = <<>>] ELSE v

(* Rel holds between the answer in ret' and every answer the same request *)
(* can get in the same state without the clock moving                     *)
EveryAnswer(Rel(_, _)) ==
    \A o \in Serve(ret'.endpoint, ret'.args, utcnow, ret'.fault) :
        (~o.raised /\ o.clock = utcnow) =>
            IF ret'.endpoint = "/summary"
            THEN \A f \in DOMAIN o.value : Rel(o.value[f], ret'.result[f])
            ELSE Rel(o.value, ret'.result)

Answered ==
    ret'.op = "admin_get" /\ ret'.status_code = 200 /\ utcnow' = utcnow

Payload(v) ==
    CASE v.op \in CountOps -> <<v.count, v.change>>
      [] v.op = "get_avg_session_time" -> <<v.formatted, v.minutes, v.change>>
      [] v.op = "get_traffic_by_day" -> <<v.labels, v.visitors, v.views>>
      [] OTHER -> v.result

(* The field of the summary in ret' is a value the function of the field *)
(* returns when called alone with the days of the summary, at an instant *)
(* of the call                                                           *)
FieldOfSingleCall(call) ==
    \E c \in utcnow..utcnow' :
       \E r \in Returns(call.fn, [call.args EXCEPT !.days = ret'.args.days], c) :
          Payload(r.value) = Payload(ret'.result[call.field])

SummaryAnswered ==
    ret'.op = "admin_get" /\ ret'.endpoint = "/summary" /\ ret'.status_code = 200

WindowedFields ==
    {"visitors", "page_views", "avg_time", "cta_clicks", "traffic_by_day", "sources",
     "popular_pages", "devices", "browsers", "form_submissions"}

(* C25: get_dashboard_summary(days) fans out with the one shared days:      *)
(* each windowed field of the result (visitors, page_views, avg_time,       *)
(* cta_clicks, traffic_by_day, sources, popular_pages, devices, browsers,   *)
(* form_submissions) equals what the corresponding single function returns *)
(* for that same days.                                                      *)
C25_SummarySharesDays ==
    [][SummaryAnswered =>
          \A i \in DOMAIN SummaryCalls(ret'.args.days, ret'.args.dialect) :
             LET call == SummaryCalls(ret'.args.days, ret'.args.dialect)[i]
             IN  call.field \in WindowedFields => FieldOfSingleCall(call)]_vars

(* What holds: every windowed field but form_submissions follows days *)
C25_HoldsButFormSubmissions ==
    [][SummaryAnswered =>
          \A i \in DOMAIN SummaryCalls(ret'.args.days, ret'.args.dialect) :
             LET call == SummaryCalls(ret'.args.days, ret'.args.dialect)[i]
             IN  call.field \in WindowedFields \ {"form_submissions"} =>
                    FieldOfSingleCall(call)]_vars

----------------------------------------------------------------------------
(* Two processes write the session of one browser at the same time: two *)
(* tabs start it, or one patches it                                     *)
WriterCalls ==
    {[op |-> "create_session", session_id |-> "s1", ip_hash |-> a[1],
      user_agent |-> a[2], consent |-> a[3]] : a \in CreateArgs}
    \cup {[op |-> "update_session", session_id |-> "s1", pages_visited |-> pv,
           ended_at |-> e] : pv \in PagesVisitedArgs, e \in EndedAtArgs}

AllIdle == \A p \in Procs : writers[p].pc = "idle"

NextWriters ==
    \/ AllIdle /\ Advance(StoreInstants)
    \/ \E p \in Procs : \E call \in WriterCalls : Connect(p, call)
    \/ \E p \in Procs : Execute(p)
    \/ \E p \in Procs : Busy(p)
    \/ \E p \in Procs : BusyTimeout(p)
    \/ \E p \in Procs : Commit(p)
    \/ \E p \in Procs : Return(p)

SpecWriters == Init /\ [][NextWriters]_vars

(* A commit leaves the table as the call of the process, run alone on the *)
(* table as it was just before, would leave it                            *)
CommitIsTheCallAlone ==
    \A p \in Procs :
       (writers[p].pc = "executed" /\ writers'[p].pc = "closed") =>
           sessions' = Effect(writers[p].call)

(* C26: concurrent writers of one session id are resolved by              *)
(* last-write-wins: for every interleaving of two create_session or       *)
(* update_session calls on the id the final row is the one a sequential   *)
(* execution of the two in some order leaves, there is exactly one row    *)
(* for the id, and neither call blocks or fails because of the other.     *)
C26_LastWriteWinsWithoutWaiting ==
    /\ [][CommitIsTheCallAlone]_vars
    /\ [](\A id \in SessionIds : Len(RowsOf(sessions, id)) <= 1)
    /\ [](\A p \in Procs : writers[p].pc \in {"connected", "failed"} => ~writers[p].waited)

(* What holds: the commits are a sequential execution of the calls, in *)
(* the order of the commits, and the id keeps one row                  *)
C26_CommitsAreSequential ==
    /\ [][CommitIsTheCallAlone]_vars
    /\ [](\A id \in SessionIds : Len(RowsOf(sessions, id)) <= 1)

----------------------------------------------------------------------------
(* Every row of the table before the step is in it after the step, at the *)
(* same place and with the same values                                    *)
RowsKept(before, after) ==
    \A i \in DOMAIN before : i \in DOMAIN after /\ after[i] = before[i]

(* Every session id stored before the step is stored after it; Same tells *)
(* what of the row has to be as it was                                     *)
SessionsKept(Same(_, _)) ==
    \A i \in DOMAIN sessions :
       \E j \in DOMAIN sessions' :
          sessions'[j].id = sessions[i].id /\ Same(sessions[i], sessions'[j])

(* C27: stored page views and events are immutable and sessions are never *)
(* hard-deleted: a row of page_views or events, once stored, keeps all    *)
(* its values and is never removed, and a session id, once stored, stays  *)
(* stored with its original started_at.                                   *)
C27_RowsImmutableSessionsKept ==
    [][/\ RowsKept(page_views, page_views')
       /\ RowsKept(events, events')
       /\ SessionsKept(LAMBDA old, new : new.started_at = old.started_at)]_vars

(* What holds: page views and events are only appended, and a session id *)
(* once stored stays stored                                              *)
C27_HoldsButStartedAt ==
    [][/\ RowsKept(page_views, page_views')
       /\ RowsKept(events, events')
       /\ SessionsKept(LAMBDA old, new : TRUE)]_vars

----------------------------------------------------------------------------
(* parse_user_agent on its own: User-Agent strings put together from a   *)
(* device part, a browser part and a system part, each with none, one or *)
(* two of the keywords, in the capitals browsers and crawlers use        *)
DeviceParts ==
    {"", "Mobile", "Tablet", "iPad", "Googlebot", "crawler", "Spider",
     "Mobile Googlebot", "iPad Mobile", "Tablet bot"}

BrowserParts ==
    {"", "Firefox", "Edg", "Chrome", "Safari", "Opera", "OPR",
     "Chrome Safari", "Chrome Safari Edg", "Chrome Safari OPR"}

SystemParts ==
    {"", "Windows", "Mac OS", "Macintosh", "Linux", "Android", "iPhone",
     "Linux Android", "iPhone Mac OS"}

UserAgents ==
    {d \o (IF b = "" THEN "" ELSE "/" \o b) \o (IF o = "" THEN "" ELSE "/" \o o) :
        d \in DeviceParts, b \in BrowserParts, o \in SystemParts}

CallParseUserAgent(ua) ==
    /\ ret = NoCall
    /\ ret' = [op |-> "parse_user_agent", ua |-> ua, result |-> parse_user_agent(ua)]
    /\ UNCHANGED <<utcnow, PageView, AnalyticsEvent, FormSubmission, page_views, sessions,
                   events, writers>>

NextParse ==
    \/ Respond
    \/ \E ua \in UserAgents : CallParseUserAgent(ua)

SpecParse == Init /\ [][NextParse]_vars

(* An ordered table of (keywords, label): the label of the first entry one *)
(* of whose keywords occurs in the text, else the default                  *)
FirstMatch(table, text, default) ==
    LET hits == {i \in DOMAIN table : \E k \in table[i][1] : contains(text, k)}
    IN  IF hits = {} THEN default
        ELSE table[CHOOSE i \in hits : \A j \in hits : i <= j][2]

DeviceTable ==
    << <<{"mobile"}, "Mobile">>, <<{"tablet", "ipad"}, "Tablet">>,
       <<{"bot", "crawler", "spider"}, "Bot">> >>

BrowserTable ==
    << <<{"firefox"}, "Firefox">>, <<{"edg"}, "Edge">>, <<{"chrome"}, "Chrome">>,
       <<{"safari"}, "Safari">>, <<{"opera", "opr"}, "Opera">> >>

SystemTable ==
    << <<{"windows"}, "Windows">>, <<{"mac os", "macintosh"}, "macOS">>,
       <<{"linux"}, "Linux">>, <<{"android"}, "Android">>,
       <<{"iphone", "ipad"}, "iOS">> >>

(* C28: parse_user_agent is a pure first-match-wins classification of the *)
(* lower-cased User-Agent: device Mobile if it contains 'mobile', else    *)
(* Tablet if 'tablet' or 'ipad', else Bot if 'bot', 'crawler' or          *)
(* 'spider', else Desktop; browser the first of firefox, edg, chrome,     *)
(* safari, opera/opr, else Unknown; os the first of windows, mac os /     *)
(* macintosh, linux, android, iphone/ipad, else Unknown; an empty         *)
(* User-Agent gives Unknown, Desktop, Unknown.                            *)
C28_FirstMatchWins ==
    ret.op = "parse_user_agent" =>
        ret.result =
           IF ret.ua = ""
           THEN [browser |-> "Unknown", device |-> "Desktop", os |-> "Unknown"]
           ELSE [browser |-> FirstMatch(BrowserTable, lower(ret.ua), "Unknown"),
                 device |-> FirstMatch(DeviceTable, lower(ret.ua), "Desktop"),
                 os |-> FirstMatch(SystemTable, lower(ret.ua), "Unknown")]

(* A crawler that names itself a mobile browser of Chrome on Android: the *)
(* first keyword of each list decides                                     *)
C28_Witness ==
    /\ ret.op = "parse_user_agent"
    /\ ret.ua = "Mobile Googlebot/Chrome Safari/Linux Android"
    /\ ret.result = [browser |-> "Chrome", device |-> "Mobile", os |-> "Linux"]

----------------------------------------------------------------------------
(* Write path and read path together: page loads and events with consent *)
(* are ingested while the service is asked for its counts and its feed   *)
CallRecentEvents ==
    ret = NoCall /\
    \E limit \in LimitArgs : \E r \in Returns("get_recent_events",
                                  [days |-> 0, limit |-> limit, dialect |-> "sqlite"], utcnow) :
        /\ ret' = r.value
        /\ UNCHANGED <<utcnow, PageView, AnalyticsEvent, FormSubmission, page_views, sessions,
                       events, writers>>

PipelineInstants == {DayMinutes + 5}

NextPipeline ==
    \/ Respond
    \/ Advance(PipelineInstants)
    \/ \E status \in StatusCodes : dispatch(BaseRequest, status, "none")
    \/ \E body \in {EventBody("cta_click", "hero", "s1"), EventBody("scroll", Null, Null)} :
          track_event("accepted", body, TRUE)
    \/ CallPageViews
    \/ CallCtaClicks
    \/ CallRecentEvents

SpecPipeline == Init /\ [][NextPipeline]_vars

(* The rows of a table of analytics.db inside the window of the call in ret' *)
Ingested(table) ==
    {i \in DOMAIN table : table[i].timestamp >= ret'.now1 - ret'.days * DayMinutes}

(* C29: the records the ingestion writes are the records the aggregation  *)
(* service queries: once the middleware has recorded a page view,         *)
(* get_page_views(days >= 1) counts it; once POST /event has stored an    *)
(* event with consent, get_recent_events(limit >= 1) returns it as the    *)
(* most recent one and get_cta_clicks counts it when its type is          *)
(* 'cta_click'.                                                           *)
C29_ReadsWhatWasIngested ==
    [][/\ ret'.op = "get_page_views" =>
             ret'.count = Cardinality(Ingested(page_views))
       /\ ret'.op = "get_cta_clicks" =>
             ret'.count = Cardinality({i \in Ingested(events) :
                                          events[i].event_type = "cta_click"})
       /\ (ret'.op = "get_recent_events" /\ ret'.limit >= 1 /\ events # <<>>) =>
             /\ ret'.result # <<>>
             /\ ret'.result[1].type = events[Len(events)].event_type
             /\ ret'.result[1].path = events[Len(events)].path]_vars

(* What the service returns instead: the counts and the feed of the tables *)
(* of the ORM, which no ingestion writes                                   *)
C29_ReadsTheOrmTables ==
    [][/\ ret'.op \in {"get_page_views", "get_cta_clicks"} => ret'.count = 0
       /\ ret'.op = "get_recent_events" => ret'.result = <<>>
       /\ PageView' = <<>> /\ AnalyticsEvent' = <<>>]_vars

----------------------------------------------------------------------------
(* C30: each name appears at most once in a breakdown returned by         *)
(* get_traffic_sources, get_device_stats or get_browser_stats, whatever   *)
(* the PageView rows hold in the column (null, empty, or the literal      *)
(* fallback label "Direct" / "Unknown" included): no two entries have the *)
(* same name.                                                             *)
C30_NamesAreUnique ==
    ret.op \in BreakdownOps =>
        \A i, j \in DOMAIN ret.result :
           i # j => ret.result[i].name # ret.result[j].name

(* What holds: one entry per distinct stored value of the column, null *)
(* being one of them                                                   *)
C30_OneEntryPerStoredValue ==
    ret.op \in BreakdownOps =>
        /\ \A i, j \in DOMAIN ret.keys : i # j => ret.keys[i] # ret.keys[j]
        /\ Len(ret.result) = Len(ret.keys)

====
